---- MODULE Spec2Model ----
(***************************************************************************)
(* A model of gpn's connector (src/gpn/connector.py).                      *)
(*                                                                         *)
(* Three parts share this module.                                          *)
(*                                                                         *)
(*  - The data model: the tables hierarchy, label, cell and cell_label of  *)
(*    one bootstrapped Partition, written through a read-write handle that *)
(*    _Connector.__call__ issued.  Every SQL statement is one action: its  *)
(*    BEFORE triggers, the table constraints, its AFTER triggers and the   *)
(*    foreign keys (native, or the temporary fki_/fku_/fkd_ triggers when  *)
(*    the engine is older than 3.6.19) decide whether the statement is     *)
(*    applied or aborted as a whole.  Specifications: Spec (label and      *)
(*    hierarchy of a new Partition), SpecCellLabel (cell_label of a        *)
(*    populated one), SpecForeignKey (cell_label and its parent rows),     *)
(*    SpecRejected (statements on label and cell_label that are aborted).  *)
(*                                                                         *)
(*  - The storage lifecycle: the filesystem, the connectors built by       *)
(*    _Connector.__init__, the handles issued by _Connector.__call__ and   *)
(*    the databases behind them.  Specifications: SpecConn (every file    *)
(*    and mode), SpecReadOnly (read-only next to read-write connectors),   *)
(*    SpecLifetime (connectors let go of and finalized), SpecBootstrap     *)
(*    (a statement of the bootstrap may raise), SpecIsolation (wrappers    *)
(*    of a master in memory, their isolation level and their disposal).    *)
(*                                                                         *)
(*  - The functions of the module: the target locator (SpecLocator) and    *)
(*    the adapter and converter of Decimal columns (SpecDecimal), the      *)
(*    triggers of one synthesized foreign key (SpecGuard).                 *)
(***************************************************************************)
EXTENDS Integers, Sequences, FiniteSets, TLC

\* ------------------------------------------------------------------ bounds
MaxHierarchyId == 3
MaxLevel == 1
MaxLabelId == 2
MaxCellId == 2
MaxCellLabelId == 3
MaxChildRows == 1
MaxNamedPaths == 1
MaxConnectors == 2
MaxHandles == 2
MaxRowId == 1
MaxRows == 1
MaxParams == 3
MaxDigits == 2
MaxExponent == 7
MaxKeyColumns == 2
MaxGuardRows == 2
MaxLabelledRows == 2

\* SQL NULL.  Every id of the model is >= 1, every level >= 0 is an int too,
\* so NULL is kept apart from the levels by never being used as one.
NULL == 0

HierarchyIds == 1..MaxHierarchyId
Levels == 0..MaxLevel
LabelIds == 1..MaxLabelId
CellIds == 1..MaxCellId
LabelValues == {"A", "B", "UNMAPPED"}

\* sqlite3.sqlite_version_info of the engine the process runs on.
Versions == {<<3, 6, 18>>, <<3, 7, 17>>, <<3, 8, 0>>}

\* Python's tuple comparison a >= b on three-component versions.
VersionGE(a, b) ==
    \/ a[1] > b[1]
    \/ a[1] = b[1] /\ a[2] > b[2]
    \/ a[1] = b[1] /\ a[2] = b[2] /\ a[3] >= b[3]

VARIABLES
    sqlite_version,  \* the engine's version
    hierarchy,       \* rows [hierarchy_id, hierarchy_level]
    label,           \* rows [label_id, hierarchy_id, label_value]
    cell,            \* set of cell_id
    cell_label,      \* rows [cell_label_id, cell_id, hierarchy_id, label_id]
    result,          \* the error the last statement raised ("" if none)
    fs,              \* the filesystem: path -> file
    mem,             \* the ':memory:' databases: id -> database
    connectors,      \* the _Connector objects, in order of construction
    handles,         \* the connections _Connector.__call__ returned, in order
    guards,          \* the triggers of the schema each database holds
    last,            \* the last call of the lifecycle part and its outcome
    applied          \* the last call of a function of the module and its value

dataVars == <<hierarchy, label, cell, cell_label, result>>
connVars == <<fs, mem, connectors, handles, guards, last>>
vars == <<sqlite_version, hierarchy, label, cell, cell_label, result,
          fs, mem, connectors, handles, guards, last, applied>>

\* _Connector.__call__: PRAGMA foreign_keys=ON when the engine supports it,
\* else the temporary triggers of _all_foreign_key_triggers().
ForeignKeysNative == VersionGE(sqlite_version, <<3, 6, 19>>)

Max(S) == CHOOSE x \in S : \A y \in S : y <= x

\* ------------------------------------------------- schema-level triggers

\* SELECT hierarchy_id FROM hierarchy ORDER BY hierarchy_level LIMIT 1:
\* the root hierarchy, NULL when the table is empty (hierarchy_level is
\* UNIQUE NOT NULL, so the minimum is one row).
RootHierarchyId(H) ==
    IF H = {} THEN NULL
    ELSE (CHOOSE h \in H : \A g \in H : h.hierarchy_level <= g.hierarchy_level).hierarchy_id

\* SELECT label_value FROM label WHERE hid=hierarchy_id
ValuesOf(L, hid) == {l.label_value : l \in {x \in L : x.hierarchy_id = hid}}

MaximalCellLabel_ins_no_sentinel(H, L, new) ==
    /\ new.hierarchy_id # NULL
    /\ new.hierarchy_id = RootHierarchyId(H)
    /\ 1 < Cardinality(ValuesOf(L, new.hierarchy_id) \cup {new.label_value})

\* WHEN clause of MaximalCellLabel_ins (BEFORE INSERT ON label), evaluated on
\* the table as it is before the row is written.
MaximalCellLabel_ins(H, L, new) ==
    /\ new.hierarchy_id # NULL
    /\ new.hierarchy_id = RootHierarchyId(H)
    /\ 2 < Cardinality(ValuesOf(L, new.hierarchy_id) \cup {"UNMAPPED"} \cup {new.label_value})

\* WHEN clause of MaximalCellLabel_upd (BEFORE UPDATE ON label): the table
\* still holds the old version of the row being updated.
MaximalCellLabel_upd(H, L, new) ==
    /\ new.hierarchy_id # NULL
    /\ new.hierarchy_id = RootHierarchyId(H)
    /\ 2 < Cardinality(ValuesOf(L, new.hierarchy_id) \cup {"UNMAPPED"} \cup {new.label_value})

\* WHEN clause of MaximalCellHierarchy_upd (AFTER UPDATE ON hierarchy),
\* evaluated on the tables as they are after the row is written.
MaximalCellHierarchy_upd(H, L) ==
    2 < Cardinality(ValuesOf(L, RootHierarchyId(H)) \cup {"UNMAPPED"})

\* WHEN clause of MaximalCellHierarchy_del (AFTER DELETE ON hierarchy).
MaximalCellHierarchy_del(H, L) ==
    2 < Cardinality(ValuesOf(L, RootHierarchyId(H)) \cup {"UNMAPPED"})

\* The rows of one GROUP BY cell_id group (NULL cell_ids form one group).
GroupRows(CL, c) == {r \in CL : r.cell_id = c}

\* GROUP_CONCAT(label_id) over the group's rows in the subquery's order
\* (ORDER BY cell_id, label_id): the ascending sequence of the non-NULL
\* label_ids.  GROUP_CONCAT skips NULLs and yields NULL when nothing is left;
\* the empty sequence stands for that NULL (GROUP BY puts NULLs in one group).
RECURSIVE ConcatSorted(_)
ConcatSorted(R) ==
    IF R = {} THEN <<>>
    ELSE LET r == CHOOSE x \in R : \A y \in R : x.label_id <= y.label_id
         IN  <<r.label_id>> \o ConcatSorted(R \ {r})

label_combo(CL, c) == ConcatSorted({r \in GroupRows(CL, c) : r.label_id # NULL})

\* SELECT 1 FROM (... GROUP BY cell_id) GROUP BY label_combo HAVING COUNT(*) > 1
DuplicateLabelCombo(CL) ==
    LET groups == {r.cell_id : r \in CL}
    IN  \E g1, g2 \in groups : g1 # g2 /\ label_combo(CL, g1) = label_combo(CL, g2)

\* WHEN clauses of the three AFTER triggers on cell_label, evaluated on the
\* table as it is after the row is written.
CheckUniqueLabels_ins(CL) == DuplicateLabelCombo(CL)

\* Sensitivity variant for C1: no check after an UPDATE of cell_label.
CheckUniqueLabels_upd_missing(CL) == FALSE

CheckUniqueLabels_upd(CL) == DuplicateLabelCombo(CL)

CheckUniqueLabels_del(CL) == DuplicateLabelCombo(CL)

\* AutoIncrementLabelId (AFTER INSERT ON label): every row whose label_id is
\* NULL gets MAX(COALESCE(label_id, 0)) + 1 over the whole table.
AutoIncrementLabelId_per_hierarchy(L) ==
    {IF l.label_id = NULL
     THEN [l EXCEPT !.label_id =
               Max({x.label_id : x \in {y \in L : y.hierarchy_id = l.hierarchy_id}}
                   \cup {0}) + 1]
     ELSE l : l \in L}

AutoIncrementLabelId(L) ==
    LET next == Max({l.label_id : l \in L} \cup {0}) + 1
    IN  {IF l.label_id = NULL THEN [l EXCEPT !.label_id = next] ELSE l : l \in L}

\* ------------------------------------------------------------ foreign keys
\* A key is a tuple of column values; a key with a NULL component matches no
\* parent row (col = NULL is never true).
HasNull(key) == \E i \in DOMAIN key : key[i] = NULL

\* _null_clause_for_trigger: '<prefix>.<col> IS NOT NULL' for every column
\* that is not marked not_null; the empty conjunction when all are.
NullClause_every_column(key, not_null) == \A i \in DOMAIN key : key[i] # NULL

NullClause(key, not_null) == \A i \in DOMAIN key : not_null[i] \/ key[i] # NULL

\* _insert_trigger: WHEN <null clause> (SELECT 1 FROM parent WHERE
\* parent_key = NEW.child_key) IS NULL.
InsertTriggerFires(key, not_null, parentKeys) ==
    NullClause(key, not_null) /\ ~(~HasNull(key) /\ key \in parentKeys)

\* _update_trigger: the same WHEN clause, BEFORE UPDATE ON the child table.
UpdateTriggerFires(key, not_null, parentKeys) ==
    NullClause(key, not_null) /\ ~(~HasNull(key) /\ key \in parentKeys)

\* _delete_trigger: WHEN <null clause on OLD> (SELECT 1 FROM child WHERE
\* child_key = OLD.parent_key) IS NOT NULL, BEFORE DELETE ON the parent table.
DeleteTriggerFires_first_column(key, not_null, childKeys) ==
    NullClause(key, not_null) /\ key[1] # NULL /\ \E c \in childKeys : c[1] = key[1]

DeleteTriggerFires(key, not_null, childKeys) ==
    NullClause(key, not_null) /\ ~HasNull(key) /\ key \in childKeys

\* _normalize_args_for_trigger: not_null=True becomes [True] * len(child_key).
NotNullDefault(key) == [i \in DOMAIN key |-> TRUE]

\* A declared FOREIGN KEY under PRAGMA foreign_keys=ON: a child row with a
\* NULL key column is exempt, any other needs its parent row.
NativeChildViolates(key, parentKeys) == ~HasNull(key) /\ key \notin parentKeys

\* The key tuples of the three foreign keys of the modelled tables.
HierarchyKeys(H) == {<<h.hierarchy_id>> : h \in H}

LabelHierarchyKeys(L) == {<<l.hierarchy_id>> : l \in L}

LabelKeys(L) == {<<l.hierarchy_id, l.label_id>> : l \in L}

CellLabelLabelKeys(CL) == {<<r.hierarchy_id, r.label_id>> : r \in CL}

CellKeys(C) == {<<c>> : c \in C}

CellLabelCellKeys(CL) == {<<r.cell_id>> : r \in CL}

\* The foreign-key verdict on writing a child row (TRUE: the write is aborted).
\* There is one trigger per statement kind, with the same WHEN clause.
ChildInsertViolates(key, parentKeys) ==
    IF ForeignKeysNative THEN NativeChildViolates(key, parentKeys)
    ELSE InsertTriggerFires(key, NotNullDefault(key), parentKeys)

ChildUpdateViolates(key, parentKeys) ==
    IF ForeignKeysNative THEN NativeChildViolates(key, parentKeys)
    ELSE UpdateTriggerFires(key, NotNullDefault(key), parentKeys)

\* The foreign-key verdict on deleting a parent row.
ParentDeleteViolates(key, childKeys) ==
    IF ForeignKeysNative THEN ~HasNull(key) /\ key \in childKeys
    ELSE DeleteTriggerFires(key, NotNullDefault(key), childKeys)

\* The foreign-key verdict on updating a parent row's key from old to one of
\* parentKeysAfter.  The native key refuses to strand a child; of the
\* synthesized guards none is BEFORE UPDATE ON the parent table
\* (_foreign_key_triggers returns before_insert, before_update on the child
\* and before_delete on the parent only).
ParentUpdateViolates(old, parentKeysAfter, childKeys) ==
    IF ForeignKeysNative
    THEN ~HasNull(old) /\ old \in childKeys /\ old \notin parentKeysAfter
    ELSE FALSE

\* ------------------------------------------------------------- statements
\* The messages a rejected statement raises.
ErrRoot == "CHECK constraint failed: label (root hierarchy cannot have multiple values)"
ErrDuplicate == "CHECK constraint failed: cell_label (duplicate label set)"
ErrForeignKey == "FOREIGN KEY constraint failed"
ErrUnique == "UNIQUE constraint failed"
ErrNotNull == "NOT NULL constraint failed"

\* RAISE(ABORT, ...) in a trigger, or a constraint that fails: the statement
\* ends with the error and what it wrote, the writes of its triggers among
\* them, is backed out; before is the table as it was, written as it would
\* have been.
RaiseAbort_keeps_writes(before, written) == written

RaiseAbort(before, written) == before

\* label: label_id UNIQUE, PRIMARY KEY (label_id, hierarchy_id),
\* UNIQUE (hierarchy_id, label_value).  A NULL label_id collides with nothing.
LabelConflict_composite_key_only(new, L) ==
    \E l \in L :
        \/ new.label_id # NULL /\ l.label_id = new.label_id
                                /\ l.hierarchy_id = new.hierarchy_id
        \/ l.hierarchy_id = new.hierarchy_id /\ l.label_value = new.label_value

LabelConflict(new, L) ==
    \E l \in L :
        \/ new.label_id # NULL /\ l.label_id = new.label_id
        \/ l.hierarchy_id = new.hierarchy_id /\ l.label_value = new.label_value

\* INSERT INTO label VALUES (id, h, v), id possibly NULL.
InsertLabelError(new) ==
    LET written == label \cup {new}
        final == AutoIncrementLabelId(written)
        assigned == CHOOSE r \in final : r \notin label
    IN  IF MaximalCellLabel_ins(hierarchy, label, new) THEN ErrRoot
        ELSE IF ChildInsertViolates(<<new.hierarchy_id>>, HierarchyKeys(hierarchy))
             THEN ErrForeignKey
        ELSE IF new.hierarchy_id = NULL THEN ErrNotNull
        ELSE IF LabelConflict(new, label) THEN ErrUnique
        \* AutoIncrementLabelId's UPDATE fires the BEFORE UPDATE triggers.
        ELSE IF new.label_id = NULL /\ MaximalCellLabel_upd(hierarchy, written, assigned)
             THEN ErrRoot
        ELSE ""

InsertLabel(id, h, v) ==
    LET new == [label_id |-> id, hierarchy_id |-> h, label_value |-> v]
        err == InsertLabelError(new)
    IN  /\ id = NULL => Max({l.label_id : l \in label} \cup {0}) <= MaxLabelId
        /\ label' = IF err = "" THEN AutoIncrementLabelId(label \cup {new})
                     ELSE RaiseAbort(label, AutoIncrementLabelId(label \cup {new}))
        /\ result' = err
        /\ UNCHANGED <<connVars, applied, sqlite_version, hierarchy, cell, cell_label>>

\* UPDATE label SET label_id=id, hierarchy_id=h, label_value=v WHERE <old>.
UpdateLabelError(old, new) ==
    LET rest == label \ {old}
    IN  IF MaximalCellLabel_upd(hierarchy, label, new) THEN ErrRoot
        ELSE IF ChildUpdateViolates(<<new.hierarchy_id>>, HierarchyKeys(hierarchy))
             THEN ErrForeignKey
        ELSE IF new.hierarchy_id = NULL THEN ErrNotNull
        ELSE IF LabelConflict(new, rest) THEN ErrUnique
        ELSE IF ParentUpdateViolates(<<old.hierarchy_id, old.label_id>>,
                                     LabelKeys(rest \cup {new}),
                                     CellLabelLabelKeys(cell_label))
             THEN ErrForeignKey
        ELSE ""

UpdateLabel(old, id, h, v) ==
    LET new == [label_id |-> id, hierarchy_id |-> h, label_value |-> v]
        err == UpdateLabelError(old, new)
    IN  /\ old \in label
        /\ label' = IF err = "" THEN (label \ {old}) \cup {new} ELSE label
        /\ result' = err
        /\ UNCHANGED <<connVars, applied, sqlite_version, hierarchy, cell, cell_label>>

\* DELETE FROM label WHERE <old>.
DeleteLabelError(old) ==
    IF ParentDeleteViolates(<<old.hierarchy_id, old.label_id>>,
                            CellLabelLabelKeys(cell_label))
    THEN ErrForeignKey ELSE ""

DeleteLabel(old) ==
    LET err == DeleteLabelError(old)
    IN  /\ old \in label
        /\ label' = IF err = "" THEN label \ {old}
                     ELSE RaiseAbort(label, label \ {old})
        /\ result' = err
        /\ UNCHANGED <<connVars, applied, sqlite_version, hierarchy, cell, cell_label>>

\* hierarchy: hierarchy_id PRIMARY KEY, hierarchy_level UNIQUE NOT NULL.
\* hierarchy_value (UNIQUE NOT NULL, CHECKed) is not kept: every statement of
\* the model supplies a fresh legal name.
HierarchyConflict(new, H) ==
    \E h \in H : h.hierarchy_id = new.hierarchy_id
                 \/ h.hierarchy_level = new.hierarchy_level

\* INSERT INTO hierarchy VALUES (id, <name>, lvl): no trigger is declared
\* on INSERT ON hierarchy.
InsertHierarchyError(new) ==
    IF HierarchyConflict(new, hierarchy) THEN ErrUnique ELSE ""

InsertHierarchy(id, lvl) ==
    LET new == [hierarchy_id |-> id, hierarchy_level |-> lvl]
        err == InsertHierarchyError(new)
    IN  /\ hierarchy' = IF err = "" THEN hierarchy \cup {new} ELSE hierarchy
        /\ result' = err
        /\ UNCHANGED <<connVars, applied, sqlite_version, label, cell, cell_label>>

\* UPDATE hierarchy SET hierarchy_id=id, hierarchy_level=lvl WHERE <old>.
UpdateHierarchyError(old, new) ==
    LET after == (hierarchy \ {old}) \cup {new}
    IN  IF HierarchyConflict(new, hierarchy \ {old}) THEN ErrUnique
        ELSE IF ParentUpdateViolates(<<old.hierarchy_id>>, HierarchyKeys(after),
                                     LabelHierarchyKeys(label))
             THEN ErrForeignKey
        ELSE IF MaximalCellHierarchy_upd(after, label) THEN ErrRoot
        ELSE ""

UpdateHierarchy(old, id, lvl) ==
    LET new == [hierarchy_id |-> id, hierarchy_level |-> lvl]
        err == UpdateHierarchyError(old, new)
    IN  /\ old \in hierarchy
        /\ hierarchy' = IF err = "" THEN (hierarchy \ {old}) \cup {new} ELSE hierarchy
        /\ result' = err
        /\ UNCHANGED <<connVars, applied, sqlite_version, label, cell, cell_label>>

\* DELETE FROM hierarchy WHERE <old>.
DeleteHierarchyError(old) ==
    IF ParentDeleteViolates(<<old.hierarchy_id>>, LabelHierarchyKeys(label))
    THEN ErrForeignKey
    ELSE IF MaximalCellHierarchy_del(hierarchy \ {old}, label) THEN ErrRoot
    ELSE ""

DeleteHierarchy(old) ==
    LET err == DeleteHierarchyError(old)
    IN  /\ old \in hierarchy
        /\ hierarchy' = IF err = "" THEN hierarchy \ {old} ELSE hierarchy
        /\ result' = err
        /\ UNCHANGED <<connVars, applied, sqlite_version, label, cell, cell_label>>

\* INSERT INTO cell (cell_id) VALUES (c): cell_id PRIMARY KEY.
InsertCell(c) ==
    LET err == IF c \in cell THEN ErrUnique ELSE ""
    IN  /\ cell' = IF err = "" THEN cell \cup {c} ELSE cell
        /\ result' = err
        /\ UNCHANGED <<connVars, applied, sqlite_version, hierarchy, label, cell_label>>

\* DELETE FROM cell WHERE cell_id = c.
DeleteCellError(c) ==
    IF ParentDeleteViolates(<<c>>, CellLabelCellKeys(cell_label))
    THEN ErrForeignKey ELSE ""

DeleteCell(c) ==
    LET err == DeleteCellError(c)
    IN  /\ c \in cell
        /\ cell' = IF err = "" THEN cell \ {c} ELSE cell
        /\ result' = err
        /\ UNCHANGED <<connVars, applied, sqlite_version, hierarchy, label, cell_label>>

\* cell_label: UNIQUE (cell_id, hierarchy_id); NULLs collide with nothing.
CellLabelConflict(new, CL) ==
    /\ new.cell_id # NULL
    /\ new.hierarchy_id # NULL
    /\ \E r \in CL : r.cell_id = new.cell_id /\ r.hierarchy_id = new.hierarchy_id

\* INSERT INTO cell_label (cell_id, hierarchy_id, label_id) VALUES (c, h, l):
\* cell_label_id INTEGER PRIMARY KEY is the rowid, max + 1 when not given.
InsertCellLabelError(new) ==
    IF \/ ChildInsertViolates(<<new.cell_id>>, CellKeys(cell))
       \/ ChildInsertViolates(<<new.hierarchy_id, new.label_id>>, LabelKeys(label))
    THEN ErrForeignKey
    ELSE IF CellLabelConflict(new, cell_label) THEN ErrUnique
    ELSE IF CheckUniqueLabels_ins(cell_label \cup {new}) THEN ErrDuplicate
    ELSE ""

InsertCellLabel(c, h, l) ==
    LET id == Max({r.cell_label_id : r \in cell_label} \cup {0}) + 1
        new == [cell_label_id |-> id, cell_id |-> c, hierarchy_id |-> h, label_id |-> l]
        err == InsertCellLabelError(new)
    IN  /\ id <= MaxCellLabelId
        /\ cell_label' = IF err = "" THEN cell_label \cup {new}
                          ELSE RaiseAbort(cell_label, cell_label \cup {new})
        /\ result' = err
        /\ UNCHANGED <<connVars, applied, sqlite_version, hierarchy, label, cell>>

\* UPDATE cell_label SET cell_id=c, hierarchy_id=h, label_id=l WHERE <old>.
UpdateCellLabelError(old, new) ==
    IF \/ ChildUpdateViolates(<<new.cell_id>>, CellKeys(cell))
       \/ ChildUpdateViolates(<<new.hierarchy_id, new.label_id>>, LabelKeys(label))
    THEN ErrForeignKey
    ELSE IF CellLabelConflict(new, cell_label \ {old}) THEN ErrUnique
    ELSE IF CheckUniqueLabels_upd((cell_label \ {old}) \cup {new}) THEN ErrDuplicate
    ELSE ""

UpdateCellLabel(old, c, h, l) ==
    LET new == [old EXCEPT !.cell_id = c, !.hierarchy_id = h, !.label_id = l]
        err == UpdateCellLabelError(old, new)
    IN  /\ old \in cell_label
        /\ cell_label' = IF err = "" THEN (cell_label \ {old}) \cup {new} ELSE cell_label
        /\ result' = err
        /\ UNCHANGED <<connVars, applied, sqlite_version, hierarchy, label, cell>>

\* DELETE FROM cell_label WHERE <old>.
DeleteCellLabelError(old) ==
    IF CheckUniqueLabels_del(cell_label \ {old}) THEN ErrDuplicate ELSE ""

DeleteCellLabel(old) ==
    LET err == DeleteCellLabelError(old)
    IN  /\ old \in cell_label
        /\ cell_label' = IF err = "" THEN cell_label \ {old} ELSE cell_label
        /\ result' = err
        /\ UNCHANGED <<connVars, applied, sqlite_version, hierarchy, label, cell>>

\* ============================================================ storage
\* Mode flags.
IN_MEMORY == 1
TEMP_FILE == 2
READ_ONLY == 4

\* mode & flag, for the one-bit flags above.
HasFlag(mode, flag) == (mode \div flag) % 2 = 1

Modes == 0..7

\* The tables _create_partition creates, and the table the engine adds by
\* itself when the first AUTOINCREMENT table (cell) is created.
CreatedTables ==
    {"cell", "hierarchy", "label", "cell_label", "partition", "edge",
     "weight", "relation", "relation_weight", "property"}

BootstrapTables == CreatedTables \cup {"sqlite_sequence"}

\* _create_partition + _create_triggers: what each statement creates, in the
\* order in which _Connector.__init__ executes them.
BootstrapStatements ==
    << <<"table", "cell">>, <<"table", "hierarchy">>, <<"table", "label">>,
       <<"index", "nonunique_label_hierarchyid">>,
       <<"trigger", "AutoIncrementLabelId">>,
       <<"trigger", "MaximalCellLabel_ins">>,
       <<"trigger", "MaximalCellLabel_upd">>,
       <<"trigger", "MaximalCellHierarchy_upd">>,
       <<"trigger", "MaximalCellHierarchy_del">>,
       <<"table", "cell_label">>,
       <<"index", "nonunique_celllabel_cellid">>,
       <<"index", "nonunique_celllabel_hierarchyid">>,
       <<"index", "nonunique_celllabel_labelid">>,
       <<"table", "partition">>, <<"table", "edge">>, <<"table", "weight">>,
       <<"table", "relation">>, <<"table", "relation_weight">>,
       <<"table", "property">>,
       <<"trigger", "CheckUniqueLabels_ins">>,
       <<"trigger", "CheckUniqueLabels_upd">>,
       <<"trigger", "CheckUniqueLabels_del">> >>

NumStatements == Len(BootstrapStatements)

Created(kind, n) ==
    {BootstrapStatements[i][2] :
        i \in {j \in 1..n : BootstrapStatements[j][1] = kind}}

\* The tables and the triggers of a new database after the first n
\* statements; the engine adds sqlite_sequence with the first of them
\* (cell_id is AUTOINCREMENT).
TablesAfter(n) ==
    Created("table", n) \cup (IF n >= 1 THEN {"sqlite_sequence"} ELSE {})

GuardsAfter(n) == Created("trigger", n)

SchemaGuards == GuardsAfter(NumStatements)

\* Paths.  NoPath is database=None; the named paths are the caller's, the
\* temporary ones are what tempfile.mkstemp returns.
NoPath == <<"none", 0>>
NamedPaths == {<<"named", i>> : i \in 1..MaxNamedPaths}
TempPaths == {<<"tmp", i>> : i \in 1..MaxConnectors}
AllPaths == NamedPaths \cup TempPaths

\* The rows of a database, as far as the storage part cares: which row of
\* which table exists.  A database holds at most MaxRows of them.
Rows == CreatedTables \X (1..MaxRowId)

\* Files.  "absent": no such file; "other": a file that is no SQLite
\* database; "sqlite": a database with its tables and rows.
Absent == [kind |-> "absent", tables |-> {}, rows |-> {}]
OtherFile == [kind |-> "other", tables |-> {}, rows |-> {}]
Database(tables, rows) == [kind |-> "sqlite", tables |-> tables, rows |-> rows]

\* os.path.exists
Exists(path) == fs[path].kind # "absent"

\* Memory databases.  NoConn is _memory_conn=None.
NoConn == 0
MemIds == 1..MaxConnectors
\* connection.isolation_level of the sqlite3 module: the default "" opens a
\* transaction before a writing statement, None is autocommit.
DefaultIsolation == ""
Autocommit == "None"
IsolationLevels == {DefaultIsolation, Autocommit, "EXCLUSIVE"}

NoMemory == [state |-> "none", tables |-> {}, rows |-> {}, work |-> {}, isolation_level |-> DefaultIsolation]

\* Sensitivity variant for C10: every ':memory:' connection is the same
\* database.
MemoryConnect_shared(k) == 1

\* sqlite3.connect(':memory:') for the k-th connector: a new private database.
MemoryConnect(k) == k

\* Sensitivity variants: C5, a validity check that accepts a superset of the
\* required tables; C6, one that accepts every file.
_is_valid_superset(file) ==
    {"cell", "hierarchy", "label", "cell_label", "partition", "edge",
     "weight", "relation", "relation_weight", "property", "sqlite_sequence"}
        \subseteq (IF file.kind = "sqlite" THEN file.tables ELSE {})

_is_valid_always(file) == TRUE

\* _Connector._is_valid on a connection to the file: the names in
\* sqlite_master (none if the SELECT raises DatabaseError) are exactly the
\* required ones.
tables_required ==
    {"cell", "hierarchy", "label", "cell_label", "partition", "edge",
     "weight", "relation", "relation_weight", "property", "sqlite_sequence"}

tables_contained(file) == IF file.kind = "sqlite" THEN file.tables ELSE {}

_is_valid(file) == tables_required = tables_contained(file)

\* Errors.
ErrNotPartition == "File is not a valid partition."
ErrReadOnly == "attempt to write a readonly database"
ErrLocked == "database is locked"
ErrClosed == "Cannot operate on a closed database."
ErrBootstrap == "disk I/O error"

\* No function of the module was called.
NotCalled == [fn |-> "none"]

NoCall == [op |-> "none", database |-> NoPath, mode |-> 0, handle |-> 0,
           touched |-> FALSE, error |-> ""]

\* The storage part at rest: no file, no connector, no handle.
ConnIdle ==
    /\ fs = [p \in AllPaths |-> Absent]
    /\ mem = [m \in MemIds |-> NoMemory]
    /\ connectors = <<>>
    /\ handles = <<>>
    /\ guards = [file |-> [p \in AllPaths |-> {}], memory |-> [m \in MemIds |-> {}],
                 temp |-> [m \in MemIds |-> {}]]
    /\ last = NoCall
    /\ applied = NotCalled

\* Sensitivity variant for C9: the TEMP_FILE flag is not looked at.
Resolve_no_temp(database, mode) ==
    IF database # NoPath /\ (mode = 0 \/ HasFlag(mode, READ_ONLY)) THEN "named"
    ELSE "memory"

\* _Connector.__init__, the choice of a new target: the caller's path, a
\* temporary file, or a database in memory.
Resolve(database, mode) ==
    IF database # NoPath /\ (mode = 0 \/ HasFlag(mode, READ_ONLY)) THEN "named"
    ELSE IF HasFlag(mode, TEMP_FILE) THEN "temp"
    ELSE IF database = NoPath \/ HasFlag(mode, IN_MEMORY) THEN "memory"
    ELSE "named"

\* _Connector.__init__(database, mode)
ConstructedConnector(database, memory_conn, temp_path, mode) ==
    [_database |-> database, _memory_conn |-> memory_conn,
     _temp_path |-> temp_path, _is_read_only |-> HasFlag(mode, READ_ONLY),
     alive |-> TRUE, held |-> TRUE]

\* _Connector.__init__ where the first n statements of the bootstrap of a
\* new target run; with n < NumStatements the next one raises, and the
\* exception leaves __init__.  The caller gets no connector then, but the
\* object exists until its __del__ runs; it is kept here if __del__ has
\* something to release.
ConstructRun(database, mode, n) ==
    LET k == Len(connectors) + 1
        call == [op |-> "construct", database |-> database, mode |-> mode,
                 handle |-> 0, touched |-> FALSE, error |-> ""]
    IN  /\ k <= MaxConnectors
        /\ IF database # NoPath /\ Exists(database)
           THEN /\ n = NumStatements
                /\ IF _is_valid(fs[database])
                   THEN /\ connectors' = Append(connectors,
                                ConstructedConnector(database, NoConn, NoPath, mode))
                        /\ last' = call
                        /\ UNCHANGED <<fs, mem, guards>>
                   ELSE /\ last' = [call EXCEPT !.error = ErrNotPartition]
                        /\ UNCHANGED <<fs, mem, connectors, guards>>
           ELSE LET target_kind == Resolve(database, mode)
                    temp == target_kind = "temp"
                    memory == target_kind = "memory"
                    temp_path == IF temp THEN <<"tmp", k>> ELSE NoPath
                    memory_conn == IF memory THEN MemoryConnect(k) ELSE NoConn
                    target == IF temp THEN temp_path ELSE database
                    connect == ConstructedConnector(target, memory_conn, temp_path, mode)
                    done == n = NumStatements
                IN  /\ connectors' =
                          IF done THEN Append(connectors, connect)
                          ELSE IF temp \/ memory
                          THEN Append(connectors, [connect EXCEPT !.held = FALSE])
                          ELSE connectors
                    \* Populate new partition.
                    /\ IF target # NoPath
                       THEN /\ fs' = IF n = 0 /\ ~temp THEN fs
                                     ELSE [fs EXCEPT ![target] = Database(TablesAfter(n), {})]
                            /\ mem' = IF memory
                                      THEN [mem EXCEPT ![memory_conn] =
                                              [state |-> "open", tables |-> {},
                                               rows |-> {}, work |-> {}, isolation_level |-> DefaultIsolation]]
                                      ELSE mem
                            /\ guards' = [guards EXCEPT !.file[target] = GuardsAfter(n)]
                       ELSE /\ mem' = [mem EXCEPT ![memory_conn] =
                                         [state |-> "open", tables |-> TablesAfter(n),
                                          rows |-> {}, work |-> {}, isolation_level |-> DefaultIsolation]]
                            /\ fs' = fs
                            /\ guards' = [guards EXCEPT !.memory[memory_conn] = GuardsAfter(n)]
                    /\ last' = IF done THEN call ELSE [call EXCEPT !.error = ErrBootstrap]
        /\ UNCHANGED <<sqlite_version, applied, dataVars, handles>>

\* _Connector.__init__ with every statement of the bootstrap succeeding.
Construct(database, mode) == ConstructRun(database, mode, NumStatements)

\* _Connector.__init__ with a statement of the bootstrap raising.
ConstructFailing(database, mode, n) ==
    /\ n < NumStatements
    /\ ConstructRun(database, mode, n)

\* Sensitivity variant for C4: the triggers of one table are left out.
ReadOnlyTriggerTables_no_partition ==
    {"cell", "hierarchy", "label", "cell_label", "edge", "weight",
     "relation", "relation_weight", "property"}

\* The tables _all_read_only_triggers guards.
ReadOnlyTriggerTables ==
    {"cell", "hierarchy", "label", "cell_label", "edge", "weight",
     "relation", "relation_weight", "property", "partition"}

QueryOnlyNative == VersionGE(sqlite_version, <<3, 8, 0>>)

\* _Connector.__call__ runs cursor.executescript if the engine has no native
\* foreign keys, or no query_only for a read-only connector; executescript
\* commits the connection's open transaction before it runs the script.
RunsScript(ro) == ~ForeignKeysNative \/ (ro /\ ~QueryOnlyNative)

\* The keys _all_foreign_key_triggers names.
ForeignKeyNames ==
    {"lbl_harchy", "cellbl_lbl", "cellbl_cel", "wt_edg", "rel_edg", "rel_cel",
     "relwt_rel", "relwt_wt"}

\* The temporary triggers the scripts of __call__ create, as pairs of a
\* family and the key or table guarded.
TemporaryScript(ro) ==
    (IF ForeignKeysNative THEN {} ELSE {<<"fk", k>> : k \in ForeignKeyNames})
        \cup (IF ro /\ ~QueryOnlyNative
              THEN {<<"ro", t>> : t \in ReadOnlyTriggerTables} ELSE {})

ErrTriggerExists == "trigger already exists"

CreateTemporaryTrigger_plain(installed, script) ==
    IF installed \cap script # {}
    THEN [triggers |-> installed, error |-> ErrTriggerExists]
    ELSE [triggers |-> installed \cup script, error |-> ""]

\* CREATE TEMPORARY TRIGGER IF NOT EXISTS, for every trigger of the script,
\* on a connection that has the triggers installed.
CreateTemporaryTrigger(installed, script) ==
    [triggers |-> installed \cup script, error |-> ""]

\* _Connector.__call__(): a connection of its own to the file, or a
\* _ConnectionWrapper around the master connection; then the foreign keys
\* (PRAGMA or triggers) and the read-only PRAGMA, or the read-only triggers
\* on an engine that has no such PRAGMA.
EndTransaction_of_no_wrapper(hs, m) == hs

\* The master connection m ends its transaction (commit or rollback): no
\* wrapper of it has pending writes any more.
EndTransaction(hs, m) ==
    [g \in DOMAIN hs |-> IF hs[g].memory = m THEN [hs[g] EXCEPT !.txn = FALSE] ELSE hs[g]]

\* The isolation level the master m had before the first of its wrappers
\* that are alive now was opened (its present level if none is alive).
BeforeFirst(m) ==
    LET alive == {g \in 1..Len(handles) : handles[g].memory = m /\ handles[g].live}
    IN  IF alive = {} THEN mem[m].isolation_level
        ELSE handles[CHOOSE g \in alive : TRUE].before_first

Open(c) ==
    LET connect == connectors[c]
        ro == connect._is_read_only
        committing == connect._database = NoPath /\ RunsScript(ro)
        created == CreateTemporaryTrigger(
                       IF connect._database # NoPath THEN {}
                       ELSE guards.temp[connect._memory_conn],
                       TemporaryScript(ro))
    IN  /\ connect.alive
        /\ connect.held
        /\ Len(handles) < MaxHandles
        /\ handles' = Append(IF committing
                              THEN EndTransaction(handles, connect._memory_conn)
                              ELSE handles,
               [connector |-> c,
                path |-> connect._database,
                memory |-> IF connect._database # NoPath THEN NoConn
                           ELSE connect._memory_conn,
                open |-> TRUE,
                foreign_keys |-> IF ForeignKeysNative THEN "native" ELSE "triggers",
                query_only |-> ro /\ QueryOnlyNative,
                triggers |-> IF connect._database # NoPath THEN created.triggers ELSE {},
                txn |-> FALSE,
                work |-> {},
                live |-> TRUE,
                _isolation_level |-> IF connect._database # NoPath THEN DefaultIsolation
                                     ELSE mem[connect._memory_conn].isolation_level,
                before_first |-> IF connect._database # NoPath THEN DefaultIsolation
                                 ELSE BeforeFirst(connect._memory_conn)])
        /\ last' = [op |-> "open", database |-> connect._database, mode |-> 0,
                    handle |-> Len(handles) + 1, touched |-> FALSE,
                    error |-> created.error]
        /\ guards' = IF connect._database # NoPath THEN guards
                     ELSE [guards EXCEPT !.temp[connect._memory_conn] = created.triggers]
        /\ mem' = IF committing
                  THEN [mem EXCEPT ![connect._memory_conn].rows =
                                       mem[connect._memory_conn].work]
                  ELSE mem
        /\ UNCHANGED <<sqlite_version, applied, dataVars, fs, connectors>>

IsWrapper(h) == handles[h].memory # NoConn

\* Whether the connection behind the handle can still be used: a file
\* connection until it is closed or its file is removed, a wrapper until
\* the master connection is closed.
Usable(h) ==
    IF IsWrapper(h) THEN mem[handles[h].memory].state = "open"
    ELSE handles[h].open /\ Exists(handles[h].path)

\* What a SELECT through the handle returns: the connection's own
\* uncommitted rows if it is in a transaction, else the committed ones.
ReadVia(h) ==
    IF IsWrapper(h) THEN mem[handles[h].memory].work
    ELSE IF handles[h].txn THEN handles[h].work
    ELSE fs[handles[h].path].rows

\* Another connection holds the write lock of the handle's file.
Locked(h) ==
    \E g \in 1..Len(handles) :
        /\ g # h
        /\ ~IsWrapper(g)
        /\ handles[g].open
        /\ handles[g].txn
        /\ handles[g].path = handles[h].path

\* The rows after the statement.
Applied(rows, kind, row) ==
    CASE kind = "INSERT" -> rows \cup {row}
      [] kind = "UPDATE" -> rows
      [] kind = "DELETE" -> rows \ {row}

\* The temporary triggers of the connection behind the handle: its own
\* connection to a file, or the master shared by the wrappers.
TemporaryTriggers(h) ==
    IF IsWrapper(h) THEN guards.temp[handles[h].memory] ELSE handles[h].triggers

\* cursor.execute of an INSERT, UPDATE or DELETE through the handle.  An
\* INSERT is for a row that is not there; an UPDATE or DELETE names one
\* row, which may or may not be there (then no row is touched).  The
\* statement is one the guards of the data model accept.  The engine
\* refuses a write statement under query_only, then takes the write lock
\* of the file, then fires the BEFORE triggers for each row touched; an
\* accepted statement leaves a file connection in a transaction.
WriteError(h, kind, row, touched) ==
    IF ~Usable(h) THEN ErrClosed
    ELSE IF handles[h].query_only THEN ErrReadOnly
    ELSE IF ~IsWrapper(h) /\ Locked(h) THEN ErrLocked
    ELSE IF touched /\ <<"ro", row[1]>> \in TemporaryTriggers(h) THEN ErrReadOnly
    ELSE ""

Write(h, kind, row) ==
    LET view == ReadVia(h)
        touched == IF kind = "INSERT" THEN TRUE ELSE row \in view
        err == WriteError(h, kind, row, touched)
        after == Applied(view, kind, row)
    IN  /\ kind = "INSERT" => row \notin view /\ Cardinality(view) < MaxRows
        /\ last' = [op |-> "write", database |-> handles[h].path, mode |-> 0,
                    handle |-> h, touched |-> touched, error |-> err]
        /\ IF err = ""
           THEN IF IsWrapper(h)
                THEN IF mem[handles[h].memory].isolation_level = Autocommit
                     THEN /\ mem' = [mem EXCEPT ![handles[h].memory].work = after,
                                                ![handles[h].memory].rows = after]
                          /\ handles' = handles
                     ELSE /\ mem' = [mem EXCEPT ![handles[h].memory].work = after]
                          /\ handles' = [handles EXCEPT ![h].txn = @ \/ touched]
                ELSE /\ handles' = [handles EXCEPT ![h].txn = TRUE, ![h].work = after]
                     /\ mem' = mem
           ELSE UNCHANGED <<mem, handles>>
        /\ UNCHANGED <<sqlite_version, applied, dataVars, fs, connectors, guards>>

\* Another wrapper of the same master connection has written rows that are
\* not committed yet.
OthersPending(h) ==
    \E g \in 1..Len(handles) :
        g # h /\ IsWrapper(h) /\ handles[g].memory = handles[h].memory /\ handles[g].txn

\* connection.commit()
Commit(h) ==
    /\ last' = [op |-> "commit", database |-> handles[h].path, mode |-> 0,
                handle |-> h, touched |-> handles[h].txn,
                error |-> IF Usable(h) THEN "" ELSE ErrClosed,
                others |-> OthersPending(h)]
    /\ IF ~Usable(h) THEN UNCHANGED <<fs, mem, handles>>
       ELSE IF IsWrapper(h)
       THEN /\ mem' = [mem EXCEPT ![handles[h].memory].rows = mem[handles[h].memory].work]
            /\ handles' = EndTransaction(handles, handles[h].memory)
            /\ fs' = fs
       ELSE /\ fs' = IF handles[h].txn
                     THEN [fs EXCEPT ![handles[h].path].rows = handles[h].work]
                     ELSE fs
            /\ handles' = [handles EXCEPT ![h].txn = FALSE, ![h].work = {}]
            /\ mem' = mem
    /\ UNCHANGED <<sqlite_version, applied, dataVars, connectors, guards>>

\* Sensitivity variant for C11: closing a wrapper closes the master.
WrapperClose_keeps_work(store) == store

WrapperClose_closes_master(store) ==
    [state |-> "closed", tables |-> {}, rows |-> {}, work |-> {}, isolation_level |-> DefaultIsolation]

\* _ConnectionWrapper.close: self._conn.rollback()
WrapperClose(store) == [store EXCEPT !.work = store.rows]

\* connection.close(): a file connection is closed, its uncommitted rows
\* lost; _ConnectionWrapper.close rolls the master connection back (and
\* passes if the master is closed already).
Close(h) ==
    /\ last' = [op |-> "close", database |-> handles[h].path, mode |-> 0,
                handle |-> h,
                touched |-> handles[h].txn /\ (IsWrapper(h) =>
                               mem[handles[h].memory].work # mem[handles[h].memory].rows),
                error |-> "",
                others |-> OthersPending(h)]
    /\ IF IsWrapper(h)
       THEN /\ mem' = [mem EXCEPT ![handles[h].memory] = WrapperClose(@)]
            /\ handles' = EndTransaction(handles, handles[h].memory)
       ELSE /\ handles' = [handles EXCEPT ![h].open = FALSE, ![h].txn = FALSE,
                                          ![h].work = {}]
            /\ mem' = mem
    /\ UNCHANGED <<sqlite_version, applied, dataVars, fs, connectors, guards>>

\* Sensitivity variant for C12: the temporary file is left behind.
RemoveFile_skipped(files, path) == files

\* os.remove(path)
RemoveFile(files, path) == [files EXCEPT ![path] = Absent]

\* The caller's last reference to the connector goes (its scope exits).
Release(c) ==
    /\ connectors[c].alive
    /\ connectors[c].held
    /\ connectors' = [connectors EXCEPT ![c].held = FALSE]
    /\ last' = [op |-> "release", database |-> connectors[c]._database, mode |-> 0,
                handle |-> 0, touched |-> FALSE, error |-> ""]
    /\ UNCHANGED <<sqlite_version, applied, dataVars, fs, mem, handles, guards>>

\* _Connector.__del__: the master connection is closed, the temporary file
\* removed.
Finalize(c) ==
    LET connect == connectors[c]
    IN  /\ connect.alive
        /\ connectors' = [connectors EXCEPT ![c].alive = FALSE, ![c].held = FALSE]
        /\ mem' = IF connect._memory_conn # NoConn
                  THEN [mem EXCEPT ![connect._memory_conn] =
                          [state |-> "closed", tables |-> {}, rows |-> {}, work |-> {}, isolation_level |-> DefaultIsolation]]
                  ELSE mem
        /\ fs' = IF connect._temp_path # NoPath
                 THEN RemoveFile(fs, connect._temp_path)
                 ELSE fs
        /\ guards' = [file |-> IF connect._temp_path # NoPath
                               THEN [guards.file EXCEPT ![connect._temp_path] = {}]
                               ELSE guards.file,
                      memory |-> IF connect._memory_conn # NoConn
                                 THEN [guards.memory EXCEPT ![connect._memory_conn] = {}]
                                 ELSE guards.memory,
                      temp |-> IF connect._memory_conn # NoConn
                               THEN [guards.temp EXCEPT ![connect._memory_conn] = {}]
                               ELSE guards.temp]
        /\ last' = [op |-> "dispose", database |-> connect._database, mode |-> 0,
                    handle |-> 0, touched |-> FALSE, error |-> ""]
        /\ handles' = IF connect._memory_conn # NoConn
                      THEN EndTransaction(handles, connect._memory_conn)
                      ELSE handles
        /\ UNCHANGED <<sqlite_version, applied, dataVars>>

\* __del__ run by the interpreter at some time after the last reference
\* went (a collector without reference counts, a reference cycle, a
\* traceback that keeps the frame).
Dispose(c) == ~connectors[c].held /\ Finalize(c)

\* The last reference goes and the reference count runs __del__ at once.
ReleaseFinalized(c) == connectors[c].held /\ Finalize(c)

\* ----------------------------------------------------------- specification
\* A new Partition after _Connector.__init__ ran _create_partition and
\* _create_triggers: every table empty.
Init ==
    /\ sqlite_version \in Versions
    /\ hierarchy = {}
    /\ label = {}
    /\ cell = {}
    /\ cell_label = {}
    /\ result = ""
    /\ ConnIdle

LabelStatements ==
    \/ \E id \in LabelIds \cup {NULL}, h \in HierarchyIds \cup {NULL}, v \in LabelValues :
           InsertLabel(id, h, v)
    \/ \E old \in label, id \in LabelIds, h \in HierarchyIds \cup {NULL}, v \in LabelValues :
           UpdateLabel(old, id, h, v)
    \/ \E old \in label : DeleteLabel(old)

HierarchyStatements ==
    \/ \E id \in HierarchyIds, lvl \in Levels : InsertHierarchy(id, lvl)
    \/ \E old \in hierarchy, id \in HierarchyIds, lvl \in Levels : UpdateHierarchy(old, id, lvl)
    \/ \E old \in hierarchy : DeleteHierarchy(old)

CellStatements ==
    \/ \E c \in CellIds : InsertCell(c)
    \/ \E c \in cell : DeleteCell(c)

\* cell_label statements for the rows of Cells: cell_id is one of the cell
\* ids, hierarchy_id one of the stored hierarchies or NULL, label_id any id
\* or NULL (a hierarchy_id/label_id pair that is no Label is among them).
CellLabelStatements ==
    \/ \E c \in CellIds, h \in {x.hierarchy_id : x \in hierarchy} \cup {NULL},
          l \in LabelIds \cup {NULL} :
           InsertCellLabel(c, h, l)
    \/ \E old \in cell_label, c \in CellIds,
          h \in {x.hierarchy_id : x \in hierarchy} \cup {NULL}, l \in LabelIds \cup {NULL} :
           UpdateCellLabel(old, c, h, l)
    \/ \E old \in cell_label : DeleteCellLabel(old)

\* Statements on label and hierarchy of a new Partition.
Next == LabelStatements \/ HierarchyStatements

Spec == Init /\ [][Next]_vars

\* A Partition that already holds two hierarchies (1 is the root), one label
\* in each and two cells, as these accepted statements leave it:
\*   INSERT INTO hierarchy VALUES (1, 'region', 0), (2, 'state', 1)
\*   INSERT INTO label VALUES (1, 1, 'A'), (2, 2, 'B')
\*   INSERT INTO cell (cell_id) VALUES (1), (2)
InitPopulated ==
    /\ sqlite_version \in Versions
    /\ hierarchy = {[hierarchy_id |-> 1, hierarchy_level |-> 0],
                    [hierarchy_id |-> 2, hierarchy_level |-> 1]}
    /\ label = {[label_id |-> 1, hierarchy_id |-> 1, label_value |-> "A"],
                [label_id |-> 2, hierarchy_id |-> 2, label_value |-> "B"]}
    /\ cell = {1, 2}
    /\ cell_label = {}
    /\ result = ""
    /\ ConnIdle

\* Statements on cell_label of the populated Partition.
NextCellLabel == CellLabelStatements

SpecCellLabel == InitPopulated /\ [][NextCellLabel]_vars

\* Statements on the parent rows of cell_label: a Label's key is rewritten
\* (its value kept), a Label or a Cell is deleted, a Cell is inserted.
ParentStatements ==
    \/ \E old \in label, id \in LabelIds, h \in {x.hierarchy_id : x \in hierarchy} :
           UpdateLabel(old, id, h, old.label_value)
    \/ \E old \in label : DeleteLabel(old)
    \/ \E c \in CellIds : InsertCell(c)
    \/ \E c \in cell : DeleteCell(c)

\* Statements on cell_label and on its parent rows, with at most MaxChildRows
\* rows in cell_label.
NextForeignKey ==
    \/ \E c \in CellIds, h \in {x.hierarchy_id : x \in hierarchy} \cup {NULL},
          l \in LabelIds \cup {NULL} :
           Cardinality(cell_label) < MaxChildRows /\ InsertCellLabel(c, h, l)
    \/ \E old \in cell_label, c \in CellIds,
          h \in {x.hierarchy_id : x \in hierarchy} \cup {NULL}, l \in LabelIds \cup {NULL} :
           UpdateCellLabel(old, c, h, l)
    \/ \E old \in cell_label : DeleteCellLabel(old)
    \/ ParentStatements

SpecForeignKey == InitPopulated /\ [][NextForeignKey]_vars

\* Statements that the guards of the populated Partition reject or accept:
\* label rows are inserted (with and without label_id) and deleted,
\* cell_label rows inserted (at most MaxLabelledRows of them) and deleted.
NextRejected ==
    \/ \E id \in LabelIds \cup {NULL}, h \in HierarchyIds \cup {NULL}, v \in LabelValues :
           InsertLabel(id, h, v)
    \/ \E old \in label : DeleteLabel(old)
    \/ \E c \in CellIds, h \in {x.hierarchy_id : x \in hierarchy}, l \in LabelIds :
           Cardinality(cell_label) < MaxLabelledRows /\ InsertCellLabel(c, h, l)
    \/ \E old \in cell_label : DeleteCellLabel(old)

SpecRejected == InitPopulated /\ [][NextRejected]_vars


\* ------------------------------------------------- storage specification
\* The file a caller's path may name before the first call: none, a file
\* that is no database, an empty database, a Partition made earlier, a
\* Partition with one table missing or one table more, a database of
\* something else.
InitialFiles ==
    {Absent, OtherFile, Database({}, {}), Database(BootstrapTables, {}),
     Database(BootstrapTables \ {"property"}, {}),
     Database(BootstrapTables \cup {"foo"}, {}), Database({"foo"}, {})}

\* A database made earlier by this code has the triggers of the schema if
\* it has their tables.
InitialGuards(file) ==
    IF {"label", "hierarchy", "cell_label"} \subseteq file.tables
    THEN SchemaGuards ELSE {}

InitConn ==
    /\ sqlite_version \in Versions
    /\ hierarchy = {}
    /\ label = {}
    /\ cell = {}
    /\ cell_label = {}
    /\ result = ""
    /\ fs \in [AllPaths -> InitialFiles]
    /\ \A p \in TempPaths : fs[p] = Absent
    /\ mem = [m \in MemIds |-> NoMemory]
    /\ connectors = <<>>
    /\ handles = <<>>
    /\ guards = [file |-> [p \in AllPaths |-> InitialGuards(fs[p])],
                 memory |-> [m \in MemIds |-> {}],
                 temp |-> [m \in MemIds |-> {}]]
    /\ last = NoCall
    /\ applied = NotCalled

\* The caller writes rows of cell.
NextConn ==
    \/ \E database \in NamedPaths \cup {NoPath}, mode \in Modes : Construct(database, mode)
    \/ \E c \in 1..Len(connectors) : Open(c)
    \/ \E h \in 1..Len(handles), kind \in {"INSERT", "UPDATE", "DELETE"},
          row \in {r \in Rows : r[1] = "cell"} :
           Write(h, kind, row)
    \/ \E h \in 1..Len(handles) : Commit(h)
    \/ \E h \in 1..Len(handles) : Close(h)

SpecConn == InitConn /\ [][NextConn]_vars

\* The life of connectors to its end: the caller's path names no file or a
\* Partition, the mode is 0, IN_MEMORY or TEMP_FILE; the caller lets go of
\* a connector at any time, and its __del__ runs at any time after that.
InitLifetime ==
    /\ InitConn
    /\ \A p \in NamedPaths : fs[p] \in {Absent, Database(BootstrapTables, {})}

NextLifetime ==
    \/ \E database \in NamedPaths \cup {NoPath}, mode \in {0, IN_MEMORY, TEMP_FILE} :
           Construct(database, mode)
    \/ \E c \in 1..Len(connectors) : Open(c)
    \/ \E h \in 1..Len(handles), kind \in {"INSERT", "UPDATE", "DELETE"},
          row \in {r \in Rows : r[1] = "cell"} :
           Write(h, kind, row)
    \/ \E h \in 1..Len(handles) : Commit(h)
    \/ \E h \in 1..Len(handles) : Close(h)
    \/ \E c \in 1..Len(connectors) : Release(c)
    \/ \E c \in 1..Len(connectors) : ReleaseFinalized(c)
    \/ \E c \in 1..Len(connectors) : Dispose(c)

SpecLifetime == InitLifetime /\ [][NextLifetime]_vars

\* Construction where a statement of the bootstrap may raise (the disk is
\* full, the process is out of file handles, ...), on a path that names no
\* file at first.
\* The statement that raises comes after n others: the first one, one
\* among the tables, the first of _create_triggers (after all of
\* _create_partition), the last one.
FailPoints == {0, 3, NumStatements - 3, NumStatements - 1}

InitBootstrap ==
    /\ InitConn
    /\ \A p \in NamedPaths : fs[p] = Absent

NextBootstrap ==
    \/ \E database \in NamedPaths \cup {NoPath}, mode \in {0, IN_MEMORY, TEMP_FILE} :
           Construct(database, mode)
    \/ \E database \in NamedPaths \cup {NoPath}, mode \in {0, IN_MEMORY, TEMP_FILE},
          n \in FailPoints :
           ConstructFailing(database, mode, n)
    \/ \E c \in 1..Len(connectors) : Open(c)
    \/ \E h \in 1..Len(handles) : Close(h)
    \/ \E c \in 1..Len(connectors) : Release(c)
    \/ \E c \in 1..Len(connectors) : Dispose(c)

SpecBootstrap == InitBootstrap /\ [][NextBootstrap]_vars

\* Read-only connectors next to read-write ones: the caller's path names
\* no file or a Partition, the mode is 0 or READ_ONLY; the read-write
\* handles write rows of cell, the read-only ones attempt every table.
IsReadOnly(h) == connectors[handles[h].connector]._is_read_only

InitReadOnly ==
    /\ InitConn
    /\ \A p \in NamedPaths : fs[p] \in {Absent, Database(BootstrapTables, {})}

NextReadOnly ==
    \/ \E database \in NamedPaths \cup {NoPath}, mode \in {0, READ_ONLY} :
           Construct(database, mode)
    \/ \E c \in 1..Len(connectors) : Open(c)
    \/ \E h \in 1..Len(handles), kind \in {"INSERT", "UPDATE", "DELETE"}, row \in Rows :
           /\ row[1] = "cell" \/ IsReadOnly(h)
           /\ Write(h, kind, row)
    \/ \E h \in 1..Len(handles) : Commit(h)
    \/ \E h \in 1..Len(handles) : Close(h)

SpecReadOnly == InitReadOnly /\ [][NextReadOnly]_vars


\* ------------------------------------------------------- isolation level
\* _ConnectionWrapper.isolation_level setter: the value goes to the shared
\* master.  The sqlite3 module commits the open transaction when the level
\* is set to None.
SetLevel(store, value) ==
    [store EXCEPT !.isolation_level = value,
                  !.rows = IF value = Autocommit THEN store.work ELSE store.rows]

SetIsolation(h, value) ==
    /\ IsWrapper(h)
    /\ handles[h].live
    /\ Usable(h)
    /\ mem' = [mem EXCEPT ![handles[h].memory] = SetLevel(@, value)]
    /\ handles' = IF value = Autocommit
                  THEN EndTransaction(handles, handles[h].memory)
                  ELSE handles
    /\ last' = [op |-> "isolation_level", database |-> handles[h].path, mode |-> 0,
                handle |-> h, touched |-> FALSE, error |-> ""]
    /\ UNCHANGED <<sqlite_version, applied, dataVars, fs, connectors, guards>>

\* _ConnectionWrapper.__del__: the level saved by __init__ goes back to the
\* master, then close() rolls the master back.  On a closed master both
\* statements raise and the interpreter drops the error.
WrapperDel_keeps_level(store, saved) == WrapperClose(store)

WrapperDel(store, saved) == WrapperClose(SetLevel(store, saved))

DisposeHandle(h) ==
    /\ IsWrapper(h)
    /\ handles[h].live
    /\ IF Usable(h)
       THEN /\ mem' = [mem EXCEPT ![handles[h].memory] =
                                     WrapperDel(@, handles[h]._isolation_level)]
            /\ handles' = [EndTransaction(handles, handles[h].memory)
                              EXCEPT ![h].live = FALSE]
       ELSE /\ mem' = mem
            /\ handles' = [handles EXCEPT ![h].live = FALSE]
    /\ last' = [op |-> "del", database |-> handles[h].path, mode |-> 0,
                handle |-> h,
                touched |-> Usable(h) /\ mem[handles[h].memory].isolation_level
                                            # handles[h]._isolation_level,
                error |-> ""]
    /\ UNCHANGED <<sqlite_version, applied, dataVars, fs, connectors, guards>>

InitIsolation ==
    /\ InitConn
    /\ \A p \in AllPaths : fs[p] = Absent

\* Connectors in memory; the caller opens wrappers, sets the level through
\* them, writes, commits, closes, and the wrappers are disposed in any
\* order.
NextIsolation ==
    \/ \E mode \in {0, IN_MEMORY} : Construct(NoPath, mode)
    \/ \E c \in 1..Len(connectors) : Open(c)
    \/ \E h \in 1..Len(handles), value \in IsolationLevels : SetIsolation(h, value)
    \/ \E h \in 1..Len(handles), kind \in {"INSERT", "UPDATE", "DELETE"},
          row \in {r \in Rows : r[1] = "cell"} :
           handles[h].live /\ Write(h, kind, row)
    \/ \E h \in 1..Len(handles) : handles[h].live /\ Commit(h)
    \/ \E h \in 1..Len(handles) : handles[h].live /\ Close(h)
    \/ \E h \in 1..Len(handles) : DisposeHandle(h)

SpecIsolation == InitIsolation /\ [][NextIsolation]_vars


\* -------------------------------------------------------- target locator
\* Text is a sequence of characters.  CodePoint orders the characters as
\* Python's string comparison does.
CodePoint(c) ==
    CASE c = "#" -> 35 [] c = "%" -> 37 [] c = "&" -> 38 [] c = "." -> 46
      [] c = "/" -> 47 [] c = "2" -> 50 [] c = "3" -> 51 [] c = ":" -> 58
      [] c = "=" -> 61 [] c = "?" -> 63 [] c = "F" -> 70 [] c = "a" -> 97
      [] c = "b" -> 98 [] c = "e" -> 101 [] c = "f" -> 102 [] c = "i" -> 105
      [] c = "l" -> 108

\* a < b on strings.
RECURSIVE TextLess(_, _)
TextLess(a, b) ==
    IF a = <<>> THEN b # <<>>
    ELSE IF b = <<>> THEN FALSE
    ELSE IF Head(a) = Head(b) THEN TextLess(Tail(a), Tail(b))
    ELSE CodePoint(Head(a)) < CodePoint(Head(b))

\* text.split(sep), sep one character.
RECURSIVE Split(_, _)
Split(text, sep) ==
    IF text = <<>> THEN << <<>> >>
    ELSE LET rest == Split(Tail(text), sep)
         IN  IF Head(text) = sep THEN << <<>> >> \o rest
             ELSE << <<Head(text)>> \o Head(rest) >> \o Tail(rest)

\* sep.join(parts)
RECURSIVE Join(_, _)
Join(parts, sep) ==
    IF parts = <<>> THEN <<>>
    ELSE IF Len(parts) = 1 THEN Head(parts)
    ELSE Head(parts) \o sep \o Join(Tail(parts), sep)

\* The segments of a path with '..' resolved against the segments before it:
\* above the root '..' is dropped, above a relative start it is kept.
RECURSIVE Collapse(_, _, _)
Collapse(done, segments, absolute) ==
    IF segments = <<>> THEN done
    ELSE LET seg == Head(segments)
             up == <<".", ".">>
         IN  IF seg # up THEN Collapse(Append(done, seg), Tail(segments), absolute)
             ELSE IF done # <<>> /\ done[Len(done)] # up
                  THEN Collapse(SubSeq(done, 1, Len(done) - 1), Tail(segments), absolute)
             ELSE IF absolute THEN Collapse(done, Tail(segments), absolute)
             ELSE Collapse(Append(done, seg), Tail(segments), absolute)

\* The normalized path: empty and '.' segments dropped (a trailing
\* separator leaves an empty segment), '..' resolved.
NormPath(path) ==
    LET absolute == path # <<>> /\ Head(path) = "/"
        segments == SelectSeq(Split(path, "/"), LAMBDA x : x # <<>> /\ x # <<".">>)
        body == Join(Collapse(<<>>, segments, absolute), <<"/">>)
    IN  IF absolute THEN <<"/">> \o body
        ELSE IF body = <<>> THEN <<".">> ELSE body

\* Percent-encoding of the characters reserved in a locator.
RECURSIVE Quote(_)
Quote(text) ==
    IF text = <<>> THEN <<>>
    ELSE (CASE Head(text) = "?" -> <<"%", "3", "F">>
            [] Head(text) = "#" -> <<"%", "2", "3">>
            [] OTHER -> <<Head(text)>>) \o Quote(Tail(text))

\* The value of a parameter that was passed as None.
None == <<"None">>

DropNone(kwds) == SelectSeq(kwds, LAMBDA kv : kv[2] # None)

\* sorted(items): by key, the keys of a parameter map being distinct.
RECURSIVE InsertByKey(_, _)
InsertByKey(item, items) ==
    IF items = <<>> THEN <<item>>
    ELSE IF TextLess(item[1], Head(items)[1]) THEN <<item>> \o items
    ELSE <<Head(items)>> \o InsertByKey(item, Tail(items))

RECURSIVE SortedItems(_)
SortedItems_as_passed(items) == items

SortedItems(items) ==
    IF items = <<>> THEN <<>>
    ELSE InsertByKey(Head(items), SortedItems(Tail(items)))

\* The locator of a path and its parameters (kwds: the <<key, value>> pairs
\* in the order the caller passed them).
_path_to_uri(path, kwds) ==
    LET items == SortedItems(DropNone(kwds))
        pairs == [i \in 1..Len(items) |-> items[i][1] \o <<"=">> \o Quote(items[i][2])]
        head == <<"f", "i", "l", "e", ":">> \o Quote(NormPath(path))
    IN  IF items = <<>> THEN head
        ELSE head \o <<"?">> \o Join(pairs, <<"&">>)

\* The calls that are made: paths with '..', trailing separators and
\* reserved characters; up to MaxParams parameters with distinct keys.
LocatorPaths ==
    {<<"a">>, <<"/", "a">>, <<"a", "/", ".", ".", "/", "b", "/">>,
     <<"/", "a", "/", ".", ".", "/", "b", "/">>, <<"/", "a", "?", "/", "b", "#">>}

KeyNames == {<<"a">>, <<"a", "b">>, <<"b">>}

ParamValues == {None, <<"a">>, <<"b", "?">>, <<"#">>}

ParamMaps ==
    UNION {{kwds \in [1..n -> KeyNames \X ParamValues] :
                \A i, j \in 1..n : kwds[i][1] = kwds[j][1] => i = j}
           : n \in 0..MaxParams}

InitLocator ==
    /\ Init
    /\ sqlite_version = <<3, 8, 0>>

CallPathToUri(path, kwds) ==
    /\ applied = NotCalled
    /\ applied' = [fn |-> "_path_to_uri", path |-> path, kwds |-> kwds,
                   returned |-> _path_to_uri(path, kwds)]
    /\ UNCHANGED <<sqlite_version, dataVars, connVars>>

NextLocator == \E path \in LocatorPaths, kwds \in ParamMaps : CallPathToUri(path, kwds)

SpecLocator == InitLocator /\ [][NextLocator]_vars


\* ------------------------------------------------------- Decimal columns
\* A Decimal is a sign, a coefficient (its digits, without leading zeros)
\* and an exponent, or a special value (then without digits).
DigitChars == <<"0", "1", "2", "3", "4", "5", "6", "7", "8", "9">>

DigitValue(c) == (CHOOSE i \in 1..10 : DigitChars[i] = c) - 1

IsDigit(c) == \E i \in 1..10 : DigitChars[i] = c

DigitsText(digits) == [i \in 1..Len(digits) |-> DigitChars[digits[i] + 1]]

\* '%d' % n for n >= 0, and int(text) for a text of digits.
RECURSIVE IntText(_)
IntText(n) ==
    IF n < 10 THEN <<DigitChars[n + 1]>>
    ELSE IntText(n \div 10) \o <<DigitChars[(n % 10) + 1]>>

RECURSIVE TextInt(_)
TextInt(text) ==
    IF text = <<>> THEN 0
    ELSE 10 * TextInt(SubSeq(text, 1, Len(text) - 1)) + DigitValue(text[Len(text)])

Zeros(n) == [i \in 1..n |-> "0"]

RECURSIVE StripLeadingZeros(_)
StripLeadingZeros(digits) ==
    IF Len(digits) > 1 /\ Head(digits) = 0 THEN StripLeadingZeros(Tail(digits))
    ELSE digits

Finite(sign, digits, exp) ==
    [sign |-> sign, digits |-> digits, exp |-> exp, special |-> ""]

Special(sign, name) == [sign |-> sign, digits |-> <<>>, exp |-> 0, special |-> name]

InfinityText == <<"I", "n", "f", "i", "n", "i", "t", "y">>
NaNText == <<"N", "a", "N">>
sNaNText == <<"s", "N", "a", "N">>

\* The same number with the trailing zeros of its coefficient removed.
RECURSIVE Normalized(_)
Normalized(d) ==
    IF d.special = "" /\ Len(d.digits) > 1 /\ d.digits[Len(d.digits)] = 0
    THEN Normalized([d EXCEPT !.digits = SubSeq(d.digits, 1, Len(d.digits) - 1),
                              !.exp = d.exp + 1])
    ELSE d

\* Decimal.__str__: the scientific string of the number.  Plain notation
\* when the exponent is <= 0 and the number is >= 1E-6 in magnitude, else
\* one digit before the point and E+n or E-n.
Decimal_str(d) ==
    LET sign == IF d.sign = 1 THEN <<"-">> ELSE <<>>
        coefficient == DigitsText(d.digits)
        n == Len(coefficient)
        leftdigits == d.exp + n
        dotplace == IF d.exp <= 0 /\ leftdigits > -6 THEN leftdigits ELSE 1
        intpart == IF dotplace <= 0 THEN <<"0">>
                   ELSE IF dotplace >= n THEN coefficient \o Zeros(dotplace - n)
                   ELSE SubSeq(coefficient, 1, dotplace)
        fracpart == IF dotplace <= 0 THEN <<".">> \o Zeros(-dotplace) \o coefficient
                    ELSE IF dotplace >= n THEN <<>>
                    ELSE <<".">> \o SubSeq(coefficient, dotplace + 1, n)
        e == leftdigits - dotplace
        exponent == IF e = 0 THEN <<>>
                    ELSE IF e > 0 THEN <<"E", "+">> \o IntText(e)
                    ELSE <<"E", "-">> \o IntText(-e)
    IN  IF d.special = "Infinity" THEN sign \o InfinityText
        ELSE IF d.special = "NaN" THEN sign \o NaNText
        ELSE IF d.special = "sNaN" THEN sign \o sNaNText
        ELSE sign \o intpart \o fracpart \o exponent

\* Decimal(text): sign, digits with an optional point, optional exponent;
\* or the name of a special value.
Decimal_new(text) ==
    LET negative == text # <<>> /\ Head(text) = "-"
        sign == IF negative THEN 1 ELSE 0
        body == IF negative THEN Tail(text) ELSE text
        parts == Split(body, "E")
        mantissa == Split(parts[1], ".")
        intpart == mantissa[1]
        fracpart == IF Len(mantissa) > 1 THEN mantissa[2] ELSE <<>>
        written == IF Len(parts) = 1 THEN 0
                   ELSE IF Head(parts[2]) = "-" THEN -TextInt(Tail(parts[2]))
                   ELSE IF Head(parts[2]) = "+" THEN TextInt(Tail(parts[2]))
                   ELSE TextInt(parts[2])
        all == intpart \o fracpart
    IN  IF body = InfinityText THEN Special(sign, "Infinity")
        ELSE IF body = NaNText THEN Special(sign, "NaN")
        ELSE IF body = sNaNText THEN Special(sign, "sNaN")
        ELSE Finite(sign, StripLeadingZeros([i \in 1..Len(all) |-> DigitValue(all[i])]),
                    written - Len(fracpart))

\* sqlite3.register_adapter(Decimal, str): what is bound for a Decimal.
adapt_Decimal_normalized(d) == Decimal_str(Normalized(d))

adapt_Decimal(d) == Decimal_str(d)

\* sqlite3.register_converter('TEXTNUM', ...): what a fetch of a column
\* declared TEXTNUM returns, on a connection with PARSE_DECLTYPES.
convert_TEXTNUM(stored) == [type |-> "Decimal", value |-> Decimal_new(stored)]

\* Both kinds of handle come from connections with detect_types =
\* PARSE_DECLTYPES: the file connections of _connect and the master
\* connection in memory.
ParsesDeclTypes(kind) == kind \in {"file", "memory"}

\* The Decimals that are stored.
Coefficients ==
    UNION {{digits \in [1..n -> 0..9] : n > 1 => digits[1] # 0} : n \in 1..MaxDigits}

Decimals ==
    {Finite(sign, digits, exp) :
         sign \in {0, 1}, digits \in Coefficients, exp \in -MaxExponent..MaxExponent}
    \cup {Special(sign, name) : sign \in {0, 1}, name \in {"Infinity", "NaN", "sNaN"}}

InitDecimal ==
    /\ Init
    /\ sqlite_version = <<3, 8, 0>>

\* INSERT INTO relation_weight (weight) VALUES (?) with a Decimal: TEXTNUM
\* has TEXT affinity (its name contains TEXT), the bound text is stored as
\* it is.
StoreDecimal(d, kind) ==
    /\ applied = NotCalled
    /\ applied' = [fn |-> "store", kind |-> kind, value |-> d,
                   weight |-> adapt_Decimal(d),
                   fetched |-> [type |-> "none", value |-> d]]
    /\ UNCHANGED <<sqlite_version, dataVars, connVars>>

\* SELECT weight FROM relation_weight
FetchDecimal ==
    /\ applied.fn = "store"
    /\ applied' = [applied EXCEPT
                      !.fn = "fetch",
                      !.fetched = IF ParsesDeclTypes(applied.kind)
                                  THEN convert_TEXTNUM(applied.weight)
                                  ELSE [type |-> "str", value |-> applied.value]]
    /\ UNCHANGED <<sqlite_version, dataVars, connVars>>

NextDecimal ==
    \/ \E d \in Decimals, kind \in {"file", "memory"} : StoreDecimal(d, kind)
    \/ FetchDecimal

SpecDecimal == InitDecimal /\ [][NextDecimal]_vars


\* ------------------------------------------------- foreign key guards
\* The triggers _foreign_key_triggers builds for a key of one or more
\* columns with any not_null marks, fired on a candidate row: key holds the
\* row's key columns, rows the key columns of the other table's rows.
GuardKeys == UNION {[1..n -> {NULL, 1, 2}] : n \in 1..MaxKeyColumns}

GuardRows(n) ==
    {rows \in SUBSET [1..n -> {NULL, 1, 2}] : Cardinality(rows) <= MaxGuardRows}

InitGuard ==
    /\ Init
    /\ sqlite_version = <<3, 6, 18>>

\* fki_<name>: BEFORE INSERT ON the child table.
GuardInsert(key, not_null, rows) ==
    /\ applied = NotCalled
    /\ applied' = [fn |-> "fki", key |-> key, not_null |-> not_null, rows |-> rows,
                   raised |-> InsertTriggerFires(key, not_null, rows)]
    /\ UNCHANGED <<sqlite_version, dataVars, connVars>>

\* fku_<name>: BEFORE UPDATE ON the child table.
GuardUpdate(key, not_null, rows) ==
    /\ applied = NotCalled
    /\ applied' = [fn |-> "fku", key |-> key, not_null |-> not_null, rows |-> rows,
                   raised |-> UpdateTriggerFires(key, not_null, rows)]
    /\ UNCHANGED <<sqlite_version, dataVars, connVars>>

\* fkd_<name>: BEFORE DELETE ON the parent table.
GuardDelete(key, not_null, rows) ==
    /\ applied = NotCalled
    /\ applied' = [fn |-> "fkd", key |-> key, not_null |-> not_null, rows |-> rows,
                   raised |-> DeleteTriggerFires(key, not_null, rows)]
    /\ UNCHANGED <<sqlite_version, dataVars, connVars>>

NextGuard ==
    \E key \in GuardKeys :
        \E not_null \in [DOMAIN key -> BOOLEAN], rows \in GuardRows(Len(key)) :
            \/ GuardInsert(key, not_null, rows)
            \/ GuardUpdate(key, not_null, rows)
            \/ GuardDelete(key, not_null, rows)

SpecGuard == InitGuard /\ [][NextGuard]_vars


\* ------------------------------------------------------------------ claims

\* The (hierarchy_id, label_id) pairs a Cell carries, and how often each.
LabelPairs(c) == {<<r.hierarchy_id, r.label_id>> : r \in GroupRows(cell_label, c)}

LabelPairBag(c) ==
    [p \in LabelPairs(c) |->
        Cardinality({r \in GroupRows(cell_label, c) : <<r.hierarchy_id, r.label_id>> = p})]

\* C1 as claimed: no two distinct Cells that each have a CellLabel row carry
\* the same set of (hierarchy_id, label_id) pairs.
C1_UniqueLabelSets ==
    \A c1, c2 \in CellIds :
        (c1 # c2 /\ LabelPairs(c1) # {} /\ LabelPairs(c2) # {})
            => LabelPairs(c1) # LabelPairs(c2)

\* C1 as amended: no two distinct Cells that each have a CellLabel row carry
\* the same multiset of (hierarchy_id, label_id) pairs, after any sequence of
\* inserts, updates and deletes on cell_label, in every state (the check runs
\* with the statement, which is aborted when it would create a duplicate).
C1_UniqueLabelMultisets ==
    \A c1, c2 \in CellIds :
        (c1 # c2 /\ LabelPairs(c1) # {} /\ LabelPairs(c2) # {})
            => LabelPairBag(c1) # LabelPairBag(c2)

\* C1's case: both Cells carry labels, and the last statement was aborted
\* because it would have given them the same labels.
C1_Witness ==
    /\ result = ErrDuplicate
    /\ \A c \in CellIds : LabelPairs(c) # {}

\* C2 as claimed: the labels of the root hierarchy carry at most one distinct
\* value other than the unmapped sentinel, in every reachable state.
C2_SingularRootValue ==
    Cardinality(ValuesOf(label, RootHierarchyId(hierarchy)) \ {"UNMAPPED"}) <= 1

\* C3 as claimed: every cell_label row whose label_id and hierarchy_id are
\* both present references a Label row with that pair, every cell_label row
\* with a cell_id references a Cell, and every Label its Hierarchy: no child
\* row with present key values is without its parent row, whichever way the
\* foreign keys are enforced.
C3_NoOrphans ==
    /\ \A r \in cell_label :
           /\ (r.label_id # NULL /\ r.hierarchy_id # NULL) =>
                  \E l \in label : l.label_id = r.label_id
                                   /\ l.hierarchy_id = r.hierarchy_id
           /\ r.cell_id # NULL => r.cell_id \in cell
    /\ \A l \in label :
           l.hierarchy_id # NULL =>
               \E h \in hierarchy : h.hierarchy_id = l.hierarchy_id

\* The steps of the storage part, told by the call they record.
IsWrite == last'.op = "write"
IsConstruct == last'.op = "construct"

\* The committed rows of the handle's target.
Stored(h) ==
    IF IsWrapper(h) THEN mem[handles[h].memory].rows ELSE fs[handles[h].path].rows

\* C4 (as stated): a handle of a READ_ONLY connector rejects every insert,
\* update and delete on every table, the same under PRAGMA query_only and
\* under the read-only triggers; the data never changes and a read returns
\* the stored rows.
C4_ReadOnlyRejectsEveryWrite ==
    [][(IsWrite /\ IsReadOnly(last'.handle)) =>
          /\ last'.error # ""
          /\ fs' = fs /\ mem' = mem
          /\ \A h \in 1..Len(handles) : h = last'.handle => ReadVia(h)' = ReadVia(h)]_vars

\* C4 (amended): a handle of a READ_ONLY connector never changes the data,
\* what it reads is what is stored, and it rejects every statement that
\* touches a row; a statement that touches no row is rejected under PRAGMA
\* query_only, and is a silent no-op under the read-only triggers.
C4_ReadOnlyRejectsRowWrites ==
    /\ [][(IsWrite /\ IsReadOnly(last'.handle)) =>
             /\ fs' = fs /\ mem' = mem
             /\ \A h \in 1..Len(handles) : h = last'.handle => ReadVia(h)' = ReadVia(h)
             /\ (last'.touched \/ QueryOnlyNative) => last'.error # ""
             /\ (~last'.touched /\ ~QueryOnlyNative /\ Usable(last'.handle)
                   /\ ~Locked(last'.handle)) => last'.error = ""]_vars
    /\ [](\A h \in 1..Len(handles) :
             (IsReadOnly(h) /\ Usable(h)) => ReadVia(h) = Stored(h))

\* Under the read-only triggers, a DELETE of a stored row of cell through a
\* read-only handle has just been rejected.
C4_Witness ==
    /\ last.op = "write"
    /\ IsReadOnly(last.handle)
    /\ ~QueryOnlyNative
    /\ last.touched
    /\ last.error = ErrReadOnly
    /\ ~IsWrapper(last.handle)
    /\ fs[handles[last.handle].path].rows # {}

\* C5: on an existing file, construction succeeds exactly if the file is a
\* database whose table names are the ten tables of the schema and
\* sqlite_sequence; otherwise it raises "not a valid partition".
C5_ValidIffExactTables ==
    [][(IsConstruct /\ last'.database # NoPath /\ Exists(last'.database)) =>
          LET file == fs[last'.database]
              exact == /\ file.kind = "sqlite"
                       /\ file.tables = CreatedTables \cup {"sqlite_sequence"}
          IN  /\ exact => last'.error = "" /\ Len(connectors') = Len(connectors) + 1
              /\ ~exact => last'.error = ErrNotPartition]_vars

\* A file with one table more than required has just been rejected.
C5_Witness ==
    /\ last.op = "construct"
    /\ last.error = ErrNotPartition
    /\ "foo" \in fs[last.database].tables
    /\ BootstrapTables \subseteq fs[last.database].tables

\* C6: a construction that fails the validity check changes nothing (no
\* file, no database in memory, no connector, no handle), and no handle is
\* ever connected to a file that is not a valid Partition.
C6_FailedConstructionChangesNothing ==
    /\ [][(IsConstruct /\ last'.error = ErrNotPartition) =>
             UNCHANGED <<fs, mem, connectors, handles>>]_vars
    /\ [](\A h \in 1..Len(handles) :
             (~IsWrapper(h) /\ Exists(handles[h].path)) =>
                 /\ fs[handles[h].path].kind = "sqlite"
                 /\ fs[handles[h].path].tables = BootstrapTables)

\* A Partition with a table missing has just been rejected, while a handle
\* of another connector is open.
C6_Witness ==
    /\ last.op = "construct"
    /\ last.error = ErrNotPartition
    /\ fs[last.database].kind = "sqlite"
    /\ "property" \notin fs[last.database].tables
    /\ Len(handles) > 0

\* C7: construction on a path that names no file, READ_ONLY not requested,
\* creates the file with exactly the required tables and no rows.
C7_NewFileBootstrapped ==
    [][(IsConstruct /\ last'.database # NoPath /\ ~Exists(last'.database)
          /\ ~HasFlag(last'.mode, READ_ONLY)) =>
          /\ last'.error = ""
          /\ fs'[last'.database] = Database(tables_required, {})]_vars

\* C8: construction on a path that names no file, READ_ONLY requested,
\* fails, and creates no file.
C8_ReadOnlyMissingFileFails ==
    [][(IsConstruct /\ last'.database # NoPath /\ ~Exists(last'.database)
          /\ HasFlag(last'.mode, READ_ONLY)) =>
          /\ last'.error # ""
          /\ fs' = fs
          /\ connectors' = connectors]_vars

C10_MemoryTargetsIndependent ==
    /\ [](\A c, d \in 1..Len(connectors) :
             (c # d /\ connectors[c]._memory_conn # NoConn
                    /\ connectors[d]._memory_conn # NoConn) =>
                 connectors[c]._memory_conn # connectors[d]._memory_conn)
    /\ [][(last'.op \in {"write", "commit", "close"}) =>
             \A g \in 1..Len(handles) :
                 (IsWrapper(g) /\ IsWrapper(last'.handle)
                    /\ handles[g].connector # handles[last'.handle].connector) =>
                     ReadVia(g)' = ReadVia(g)]_vars

\* Two connectors in memory, a handle of each; a row was just written
\* through one, and the other does not read it.
C10_Witness ==
    /\ last.op = "write"
    /\ last.error = ""
    /\ last.touched
    /\ Len(handles) = 2
    /\ IsWrapper(1) /\ IsWrapper(2)
    /\ handles[1].connector # handles[2].connector
    /\ Usable(1) /\ Usable(2)
    /\ ReadVia(1) # ReadVia(2)

\* The connector's target is a database in memory.
MemoryBacked(c) ==
    connectors[c]._database = NoPath /\ connectors[c]._memory_conn # NoConn

\* C11: until a connector in memory is disposed its master connection is
\* open; opening a handle changes nothing of what the handles read, closing
\* one (once or again) changes nothing of what is committed, and after a
\* close every handle of the target reads exactly the committed rows.
C11_MasterOutlivesHandles ==
    /\ [](\A c \in 1..Len(connectors) :
             (MemoryBacked(c) /\ connectors[c].alive) =>
                 /\ mem[connectors[c]._memory_conn].state = "open"
                 /\ mem[connectors[c]._memory_conn].tables = BootstrapTables)
    /\ [][(last'.op = "open") =>
             \A m \in MemIds :
                 /\ mem'[m].state = mem[m].state
                 /\ mem'[m].tables = mem[m].tables
                 /\ mem'[m].work = mem[m].work
                 /\ mem[m].rows \subseteq mem'[m].rows \cup (mem[m].rows \ mem[m].work)]_vars
    /\ [][(last'.op = "close") =>
             /\ \A m \in MemIds :
                    /\ mem'[m].state = mem[m].state
                    /\ mem'[m].tables = mem[m].tables
                    /\ mem'[m].rows = mem[m].rows
             /\ \A g \in 1..Len(handles) :
                    (IsWrapper(g) /\ IsWrapper(last'.handle)
                       /\ handles[g].memory = handles[last'.handle].memory) =>
                        ReadVia(g)' = mem[handles[g].memory].rows]_vars

\* A wrapper of a connector in memory was just closed while a second
\* wrapper of the same connector exists; the committed row is still read.
C11_Witness ==
    /\ last.op = "close"
    /\ Len(handles) = 2
    /\ IsWrapper(1) /\ IsWrapper(2)
    /\ handles[1].memory = handles[2].memory
    /\ mem[handles[1].memory].state = "open"
    /\ mem[handles[1].memory].rows # {}
    /\ ReadVia(1) = mem[handles[1].memory].rows
    /\ ReadVia(2) = mem[handles[1].memory].rows

\* C12: disposing a connector removes its temporary file, if it has one,
\* and closes its master connection, if it has one, whose data is gone;
\* every other file (a named file among them) and every other database in
\* memory is as it was.
C12_DisposeReleasesEphemerals ==
    [][(last'.op = "dispose") =>
          /\ \E c \in 1..Len(connectors) : connectors[c].alive /\ ~connectors'[c].alive
          /\ \A c \in 1..Len(connectors) :
                (connectors[c].alive /\ ~connectors'[c].alive) =>
                    LET temp == connectors[c]._temp_path
                        master == connectors[c]._memory_conn
                    IN  /\ temp # NoPath => fs'[temp].kind = "absent"
                        /\ \A p \in AllPaths : p # temp => fs'[p] = fs[p]
                        /\ master # NoConn =>
                              /\ mem'[master].state = "closed"
                              /\ mem'[master].rows = {}
                              /\ mem'[master].work = {}
                        /\ \A m \in MemIds : m # master => mem'[m] = mem[m]]_vars

\* A connector on a temporary file was just disposed, while the named file
\* holds a committed row.
C12_Witness ==
    /\ last.op = "dispose"
    /\ \E c \in 1..Len(connectors) :
          /\ ~connectors[c].alive
          /\ connectors[c]._temp_path # NoPath
          /\ last.database = connectors[c]._temp_path
          /\ ~Exists(connectors[c]._temp_path)
    /\ \E p \in NamedPaths : fs[p].rows # {}

\* The tables and the triggers of the database behind the handle.
TargetTables(h) ==
    IF IsWrapper(h) THEN mem[handles[h].memory].tables ELSE fs[handles[h].path].tables

TargetGuards(h) ==
    IF IsWrapper(h) THEN guards.memory[handles[h].memory] ELSE guards.file[handles[h].path]

\* C13: whenever a handle can be used, its target has every table and
\* every trigger of the schema, and the handle enforces the foreign keys.
C13_HandlesSeeCompleteBootstrap ==
    \A h \in 1..Len(handles) :
        Usable(h) =>
            /\ CreatedTables \subseteq TargetTables(h)
            /\ TargetGuards(h) = SchemaGuards
            /\ handles[h].foreign_keys \in {"native", "triggers"}

\* C14: a bootstrap that fails part-way raises, and leaves no file with a
\* part of the schema behind; no connector is ever constructed on a file
\* that lacks a table or a trigger of the schema.
C14_FailedBootstrapDiscarded ==
    /\ [][(IsConstruct /\ last'.error = ErrBootstrap) =>
             \A p \in NamedPaths :
                 \/ fs'[p].kind = "absent"
                 \/ fs'[p] = fs[p] /\ guards'.file[p] = guards.file[p]]_vars
    /\ [](\A c \in 1..Len(connectors) :
             (connectors[c].held /\ connectors[c]._database \in NamedPaths) =>
                 /\ fs[connectors[c]._database].tables = BootstrapTables
                 /\ guards.file[connectors[c]._database] = SchemaGuards)
\* C15: an accepted INSERT INTO label with a NULL label_id adds exactly the
\* inserted row, with label_id = max(label_id of every row already in the
\* table, 0) + 1: the maximum is taken over the whole table, whatever the
\* hierarchy of the rows and whatever gaps explicit ids left.
C15_AutoIdIsTableMaxPlusOne ==
    [][\A h \in HierarchyIds, v \in LabelValues :
           (result' = "" /\ InsertLabel(NULL, h, v)) =>
               label' = label \cup
                   {[label_id |-> Max({l.label_id : l \in label} \cup {0}) + 1,
                     hierarchy_id |-> h, label_value |-> v]}]_vars

\* The id MaxLabelId + 1 is never explicit: it was assigned after a row of
\* another hierarchy that holds the maximum, with the id 1 left unused.
C15_Witness ==
    \E a, b \in label :
        /\ a.label_id = MaxLabelId
        /\ b.label_id = MaxLabelId + 1
        /\ a.hierarchy_id # b.hierarchy_id
        /\ \A l \in label : l.label_id # 1

\* C16: whatever accepted statements built the label table, with explicit and
\* NULL label_ids in any hierarchies, every row has a label_id and no two rows
\* share one, rows of different hierarchies included.
C16_LabelIdsPresentAndUnique ==
    /\ \A l \in label : l.label_id # NULL
    /\ \A a, b \in label : a.label_id = b.label_id => a = b

\* A full table: rows of two hierarchies, one of them with the assigned id
\* MaxLabelId + 1, the others with the ids below it.
C16_Witness ==
    /\ Cardinality(label) = MaxLabelId + 1
    /\ {l.label_id : l \in label} = 1..(MaxLabelId + 1)
    /\ Cardinality({l.hierarchy_id : l \in label}) > 1

\* What the declared foreign keys of cell_label and label decide under PRAGMA
\* foreign_keys=ON, with the other constraints of the two tables: TRUE when
\* the statement is accepted.
NativeAcceptsInsertCellLabel(new) ==
    /\ ~NativeChildViolates(<<new.cell_id>>, CellKeys(cell))
    /\ ~NativeChildViolates(<<new.hierarchy_id, new.label_id>>, LabelKeys(label))
    /\ ~CellLabelConflict(new, cell_label)
    /\ ~CheckUniqueLabels_ins(cell_label \cup {new})

NativeAcceptsUpdateLabel(old, new) ==
    LET after == LabelKeys((label \ {old}) \cup {new})
        oldKey == <<old.hierarchy_id, old.label_id>>
    IN  /\ ~MaximalCellLabel_upd(hierarchy, label, new)
        /\ ~NativeChildViolates(<<new.hierarchy_id>>, HierarchyKeys(hierarchy))
        /\ new.hierarchy_id # NULL
        /\ ~LabelConflict(new, label \ {old})
        /\ ~(oldKey \in CellLabelLabelKeys(cell_label) /\ oldKey \notin after)

NativeAcceptsDeleteLabel(old) ==
    <<old.hierarchy_id, old.label_id>> \notin CellLabelLabelKeys(cell_label)

\* C17 as claimed: in every reachable state, whichever way the handle
\* enforces the foreign keys, it accepts an INSERT INTO cell_label, an UPDATE
\* of a label row and a DELETE of a label row exactly when the declared
\* foreign keys, enforced natively, accept it: child rows with NULL key
\* columns and updates of a parent row's key included.
C17_GuardsDecideAsNativeKeys ==
    /\ \A c \in CellIds, h \in HierarchyIds \cup {NULL}, l \in LabelIds \cup {NULL} :
           LET new == [cell_label_id |->
                           Max({r.cell_label_id : r \in cell_label} \cup {0}) + 1,
                       cell_id |-> c, hierarchy_id |-> h, label_id |-> l]
           IN  (InsertCellLabelError(new) = "") <=> NativeAcceptsInsertCellLabel(new)
    /\ \A old \in label, id \in LabelIds, h \in HierarchyIds :
           LET new == [label_id |-> id, hierarchy_id |-> h,
                       label_value |-> old.label_value]
           IN  (UpdateLabelError(old, new) = "") <=> NativeAcceptsUpdateLabel(old, new)
    /\ \A old \in label :
           (DeleteLabelError(old) = "") <=> NativeAcceptsDeleteLabel(old)

\* C18 as claimed: whenever the caller's scope exits (its last reference to
\* the connector goes), the connector's temporary file is removed and its
\* master connection closed by that very step, not by a later one.
C18_ReleasedAtScopeExit ==
    [][\A c \in 1..Len(connectors) :
           (connectors[c].held /\ ~connectors'[c].held) =>
               /\ connectors[c]._temp_path # NoPath =>
                      ~Exists(connectors[c]._temp_path)'
               /\ connectors[c]._memory_conn # NoConn =>
                      mem'[connectors[c]._memory_conn].state = "closed"]_vars

\* Reading a locator back: the position of the first '?', the inverse of
\* the percent-encoding.
RECURSIVE FirstIndex(_, _)
FirstIndex(text, c) ==
    IF text = <<>> THEN 0
    ELSE IF Head(text) = c THEN 1
    ELSE LET rest == FirstIndex(Tail(text), c)
         IN  IF rest = 0 THEN 0 ELSE rest + 1

RECURSIVE Unquote(_)
Unquote(text) ==
    IF text = <<>> THEN <<>>
    ELSE IF Len(text) >= 3 /\ SubSeq(text, 1, 3) = <<"%", "3", "F">>
         THEN <<"?">> \o Unquote(SubSeq(text, 4, Len(text)))
    ELSE IF Len(text) >= 3 /\ SubSeq(text, 1, 3) = <<"%", "2", "3">>
         THEN <<"#">> \o Unquote(SubSeq(text, 4, Len(text)))
    ELSE <<Head(text)>> \o Unquote(Tail(text))

\* C19: the locator of every path and parameter map is 'file:' and the
\* normalized path, followed by nothing when no parameter has a value other
\* than None, and else by '?' and one key=value pair for each parameter whose
\* value is not None, the pairs separated by '&' and in ascending order of
\* their keys whatever the order the caller passed them in.
C19_LocatorDropsNoneAndSortsKeys ==
    applied.fn = "_path_to_uri" =>
        LET uri == applied.returned
            kwds == applied.kwds
            present == {kwds[i] : i \in {j \in 1..Len(kwds) : kwds[j][2] # None}}
            q == FirstIndex(uri, "?")
            head == IF q = 0 THEN uri ELSE SubSeq(uri, 1, q - 1)
            items == IF q = 0 THEN <<>> ELSE Split(SubSeq(uri, q + 1, Len(uri)), "&")
            parts == [i \in 1..Len(items) |-> Split(items[i], "=")]
        IN  /\ Len(head) >= 5
            /\ SubSeq(head, 1, 5) = <<"f", "i", "l", "e", ":">>
            /\ Unquote(SubSeq(head, 6, Len(head))) = NormPath(applied.path)
            /\ present = {} <=> q = 0
            /\ Len(items) = Cardinality(present)
            /\ \A i \in 1..Len(items) : Len(parts[i]) = 2
            /\ {<<parts[i][1], Unquote(parts[i][2])>> : i \in 1..Len(items)} = present
            /\ \A i, j \in 1..Len(items) :
                   i < j => TextLess(parts[i][1], parts[j][1])

\* A call with three parameters: one is None, the two others were passed in
\* descending order of their keys, and a value holds a reserved character.
C19_Witness ==
    /\ applied.fn = "_path_to_uri"
    /\ Len(applied.kwds) = 3
    /\ \E k \in 1..3 : applied.kwds[k][2] = None
    /\ \E i, j \in 1..3 :
          /\ i < j
          /\ applied.kwds[i][2] \notin {None, <<"a">>}
          /\ applied.kwds[j][2] # None
          /\ TextLess(applied.kwds[j][1], applied.kwds[i][1])
    /\ FirstIndex(applied.returned, "&") > 0

\* C20: a Decimal stored in a TEXTNUM column and fetched through a handle
\* of the connector, on a file or in memory, comes back as a Decimal with
\* the sign, the digits and the exponent (or the special value) that were
\* stored.
C20_DecimalRoundTrip ==
    applied.fn = "fetch" =>
        /\ applied.fetched.type = "Decimal"
        /\ applied.fetched.value = applied.value

\* A negative number with a trailing zero in its coefficient, written with
\* an exponent, was fetched from a handle in memory.
C20_Witness ==
    /\ applied.fn = "fetch"
    /\ applied.kind = "memory"
    /\ applied.value.special = ""
    /\ applied.value.sign = 1
    /\ Len(applied.value.digits) = MaxDigits
    /\ applied.value.digits[MaxDigits] = 0
    /\ applied.value.exp = MaxExponent
    /\ FirstIndex(applied.weight, "E") > 0

\* SQL's a = b is true only of two values that are present and equal.
SqlEqual(a, b) == a # NULL /\ b # NULL /\ a = b

\* C21: the guards before INSERT and before UPDATE of a child row raise
\* exactly when no row of the parent table matches the row in all the key
\* columns at once, unless a key column that is not marked not_null is NULL
\* (then the check is skipped); a NULL in a column marked not_null exempts
\* nothing, such a row matches no parent and is rejected.
C21_ChildGuardsRejectUnmatchedRows ==
    applied.fn \in {"fki", "fku"} =>
        LET key == applied.key
            skipped == \E i \in DOMAIN key : ~applied.not_null[i] /\ key[i] = NULL
            matched == \E p \in applied.rows :
                           \A i \in DOMAIN key : SqlEqual(p[i], key[i])
        IN  applied.raised <=> (~skipped /\ ~matched)

\* A row with a NULL in the column marked not_null and a value in the
\* nullable column was rejected by the guard before UPDATE, while parents
\* exist that match the other column.
C21_Witness ==
    /\ applied.fn = "fku"
    /\ applied.not_null = <<TRUE, FALSE>>
    /\ applied.key = <<NULL, 1>>
    /\ \E p \in applied.rows : p[2] = 1
    /\ applied.raised

\* C22: the guard before DELETE of a parent row raises exactly when some
\* child row references the row through all the key columns at once; a
\* parent row no child references is deleted.
C22_DeleteGuardRejectsReferencedRows ==
    applied.fn = "fkd" =>
        (applied.raised <=>
            \E c \in applied.rows :
                \A i \in DOMAIN applied.key : SqlEqual(c[i], applied.key[i]))

\* A parent row with a two-column key was deleted although a child row
\* matches it in the first column (and not in the second).
C22_Witness ==
    /\ applied.fn = "fkd"
    /\ applied.key = <<1, 2>>
    /\ <<1, 1>> \in applied.rows
    /\ ~applied.raised

\* C23: in every reachable state, an INSERT of a label row and an UPDATE of
\* one raise the root hierarchy error exactly when the new hierarchy_id is
\* that of the hierarchy of least level and the label values of that
\* hierarchy in the table before the write (the old row of an UPDATE among
\* them), 'UNMAPPED' and the new value are more than two; a row written to
\* another hierarchy never raises it.
C23_RootCheckOnLabelWrites ==
    LET roots == {h \in hierarchy : \A g \in hierarchy :
                      h.hierarchy_level <= g.hierarchy_level}
        TooMany(h, v) ==
            \E r \in roots :
                /\ h = r.hierarchy_id
                /\ Cardinality({l.label_value :
                                    l \in {x \in label : x.hierarchy_id = h}}
                               \cup {"UNMAPPED", v}) > 2
    IN  \A id \in LabelIds \cup {NULL}, h \in HierarchyIds \cup {NULL}, v \in LabelValues :
            LET new == [label_id |-> id, hierarchy_id |-> h, label_value |-> v]
            IN  /\ (InsertLabelError(new) = ErrRoot) <=> TooMany(h, v)
                /\ \A old \in label :
                       id # NULL =>
                           ((UpdateLabelError(old, new) = ErrRoot) <=> TooMany(h, v))

\* A write to the root hierarchy was just rejected, the root holds one value
\* besides 'UNMAPPED', and another hierarchy holds two values.
C23_Witness ==
    /\ result = ErrRoot
    /\ \E r \in hierarchy :
          /\ \A g \in hierarchy : r.hierarchy_level <= g.hierarchy_level
          /\ Cardinality(ValuesOf(label, r.hierarchy_id) \ {"UNMAPPED"}) = 1
          /\ \E g \in hierarchy :
                g # r /\ Cardinality(ValuesOf(label, g.hierarchy_id) \ {"UNMAPPED"}) = 2

C25_CloseDiscardsUncommittedWork ==
    [][(last'.op = "close" /\ IsWrapper(last'.handle)) =>
           LET m == handles[last'.handle].memory
               pending == (mem[m].work \ mem[m].rows) \cup (mem[m].rows \ mem[m].work)
           IN  /\ mem'[m].rows = mem[m].rows
               /\ mem'[m].work = mem[m].rows
               /\ \A g \in 1..Len(handles) :
                      handles[g].memory = m =>
                          /\ ~handles'[g].txn
                          /\ \A r \in pending : (r \in ReadVia(g)') = (r \in mem[m].rows)]_vars

\* A wrapper through which a row was written and not committed was just
\* closed, a second wrapper of the same master exists, and the master
\* holds a committed row.
C25_Witness ==
    /\ last.op = "close"
    /\ IsWrapper(last.handle)
    /\ last.touched
    /\ mem[handles[last.handle].memory].rows # {}
    /\ \E g \in 1..Len(handles) :
           g # last.handle /\ handles[g].memory = handles[last.handle].memory

\* C26: when a wrapper of an open master in memory is disposed, the master's
\* isolation level becomes the level it had when that wrapper was opened,
\* whatever levels were set in between.
C26_DisposalRestoresLevel ==
    [][(last'.op = "del" /\ Usable(last'.handle)) =>
           mem'[handles[last'.handle].memory].isolation_level
               = handles[last'.handle]._isolation_level]_vars

\* A wrapper was just disposed while the master had another level than the
\* one the wrapper had saved, and the master now has the saved level.
C26_Witness ==
    /\ last.op = "del"
    /\ Usable(last.handle)
    /\ last.touched
    /\ mem[handles[last.handle].memory].isolation_level
           = handles[last.handle]._isolation_level

\* C27: an open of a connector in memory whose master already has the
\* temporary triggers of the script raises no error, leaves the triggers
\* installed on the master as they were, and every write statement gets
\* through every earlier handle the verdict it got before.
C27_InstallingGuardsTwiceChangesNothing ==
    [][\A c \in 1..Len(connectors) :
           (/\ last'.op = "open"
            /\ Len(handles') = Len(handles) + 1
            /\ handles'[Len(handles')].connector = c
            /\ connectors[c]._memory_conn # NoConn
            /\ TemporaryScript(connectors[c]._is_read_only) # {}
            /\ TemporaryScript(connectors[c]._is_read_only)
                   \subseteq guards.temp[connectors[c]._memory_conn]) =>
               /\ last'.error = ""
               /\ guards'.temp = guards.temp
               /\ \A g \in 1..Len(handles), kind \in {"INSERT", "UPDATE", "DELETE"},
                     row \in Rows, touched \in BOOLEAN :
                      WriteError(g, kind, row, touched)'
                          = WriteError(g, kind, row, touched)]_vars

\* A second wrapper of a read-only connector in memory was just opened on
\* an engine without foreign keys and without query_only: the master has
\* the triggers of both families, installed by the first open.
C27_Witness ==
    /\ last.op = "open"
    /\ last.error = ""
    /\ IsWrapper(last.handle)
    /\ \E g \in 1..Len(handles) :
           g < last.handle /\ handles[g].memory = handles[last.handle].memory
    /\ \E k \in ForeignKeyNames : <<"fk", k>> \in guards.temp[handles[last.handle].memory]
    /\ \E t \in ReadOnlyTriggerTables :
           <<"ro", t>> \in guards.temp[handles[last.handle].memory]

\* C28: the wrappers of one connector in memory share the one transaction
\* of the master.  A close through any of them rolls back what every one
\* of them wrote and did not commit; a commit through any of them commits
\* what every one of them wrote.  After either, no wrapper has pending
\* writes and all of them read the same rows.
C28_WrappersShareOneTransaction ==
    [][\A h \in 1..Len(handles) :
           (IsWrapper(h) /\ Usable(h) /\ last'.handle = h /\ last'.error = ""
              /\ last'.op \in {"close", "commit"}) =>
               LET m == handles[h].memory
                   kept == IF last'.op = "close" THEN mem[m].rows ELSE mem[m].work
               IN  /\ mem'[m].rows = kept
                   /\ mem'[m].work = kept
                   /\ \A g \in 1..Len(handles) :
                          handles[g].memory = m =>
                              ~handles'[g].txn /\ ReadVia(g)' = kept]_vars

\* Two wrappers of one master are open; the one that was just closed had
\* written nothing, and the close rolled back what was written through
\* the other.
C28_Witness ==
    /\ last.op = "close"
    /\ IsWrapper(last.handle)
    /\ Usable(last.handle)
    /\ ~last.touched
    /\ last.others

\* C29: when the last wrapper alive on an open master in memory is
\* disposed, the master's isolation level is the level it had before the
\* first of these wrappers was opened, in whatever order the wrappers were
\* opened, had levels set, and were disposed.
C29_LevelRestoredAfterAllDisposed ==
    [][\A h \in 1..Len(handles) :
           (/\ last'.op = "del"
            /\ last'.handle = h
            /\ Usable(h)
            /\ \A g \in 1..Len(handles) :
                   handles[g].memory = handles[h].memory => ~handles'[g].live) =>
               mem'[handles[h].memory].isolation_level = handles[h].before_first]_vars

\* C30: every connector that a construction returned, whatever the path
\* (none, a file, no file) and the mode, has exactly one store: a path or
\* a master connection in memory, never both.  A construction that returns
\* a connector with a master connection creates no file, and every handle
\* such a connector opens is a wrapper of that master.
C30_ExactlyOneStore ==
    /\ [](\A c \in 1..Len(connectors) :
             (connectors[c]._database # NoPath) # (connectors[c]._memory_conn # NoConn))
    /\ [][(IsConstruct /\ last'.error = ""
            /\ connectors'[Len(connectors')]._memory_conn # NoConn) =>
              fs' = fs]_vars
    /\ [][(last'.op = "open" /\ Len(handles') = Len(handles) + 1
            /\ connectors[handles'[Len(handles')].connector]._memory_conn # NoConn) =>
              handles'[Len(handles')].memory
                  = connectors[handles'[Len(handles')].connector]._memory_conn]_vars

====
